---------------------------- MODULE Spec2Model ----------------------------
(***************************************************************************)
(* Model of the entry generator, the rule classifier and the Drive         *)
(* listener of iafiscal_asientos:                                          *)
(*   generador_asientos/information_extractor.py  (parse_date,             *)
(*       parse_amount, extract_invoice_details)                            *)
(*   generador_asientos/asiento_utils.py  (calculate_iva_details,          *)
(*       calculate_irpf_details, format_concepto)                          *)
(*   generador_asientos/main.py  (AsientoContable, generate_asiento)       *)
(*   reglas_clasificacion/utils.py  (load_rules, match_rule)               *)
(*   reglas_clasificacion/main.py  (classify_text_content)                 *)
(*   drive_listener/listener.py  (is_file_already_processed,               *)
(*       mark_file_as_processed, check_for_new_documents, run_listener)    *)
(*                                                                         *)
(* Five specifications share the variables: Spec (one generate_asiento     *)
(* call), SpecClasificador (one classify_text_content call at a time),     *)
(* SpecCarga (two threads in load_rules), SpecParser (the parsers and      *)
(* format_concepto on their own) and SpecEscucha (the polling loop of the  *)
(* listener); each leaves the variables of the others at rest.             *)
(*                                                                         *)
(* Representation.  A Python str is a sequence of one-character strings.   *)
(* A money amount is an integer number of cents; a rate is an integer      *)
(* number of hundredths of a percent (21% = 2100).  An Optional value is   *)
(* <<>> for None and <<v>> for a value v.  An account is a TLA+ string,    *)
(* NoAccount standing for None.  Log output is not modelled.  The          *)
(* binding of module-level names (the import statements) is not part of    *)
(* the modelled state: a function is modelled from its body, except for    *)
(* format_concepto, whose name lookups are resolved against the names its  *)
(* module binds.                                                           *)
(***************************************************************************)
EXTENDS Integers, Sequences, FiniteSets, TLC

-----------------------------------------------------------------------------
(* Characters and strings                                                  *)

Digits == <<"0","1","2","3","4","5","6","7","8","9">>

IsDigit(c) == \E i \in 1..10 : Digits[i] = c

DigitVal(c) == (CHOOSE i \in 1..10 : Digits[i] = c) - 1

IsSpace(c) == c \in {" ", "\t", "\n"}

UpperCase == <<"A","B","C","D","E","F","G","H","I","J","K","L","M","N","O","P","Q","R","S","T","U","V","W","X","Y","Z">>

LowerCase == <<"a","b","c","d","e","f","g","h","i","j","k","l","m","n","o","p","q","r","s","t","u","v","w","x","y","z">>

LowerChar(c) ==
    IF \E i \in 1..26 : UpperCase[i] = c
    THEN LowerCase[CHOOSE i \in 1..26 : UpperCase[i] = c]
    ELSE c

\* str.lower()
Lower(s) == [i \in 1..Len(s) |-> LowerChar(s[i])]

\* the Python expression  sub in s
Contains(sub, s) ==
    \E i \in 1..(Len(s) - Len(sub) + 1) : SubSeq(s, i, i + Len(sub) - 1) = sub

\* s[i] when it exists, a character that matches nothing otherwise
CharAt(s, i) == IF i >= 1 /\ i <= Len(s) THEN s[i] ELSE "EOS"

\* index of the first character at or after i that is not white space (\s*)
RECURSIVE SkipSpace(_, _)
SkipSpace(s, i) == IF IsSpace(CharAt(s, i)) THEN SkipSpace(s, i + 1) ELSE i

\* value of a sequence of digits
RECURSIVE DigitsValue(_)
DigitsValue(ds) ==
    IF Len(ds) = 0 THEN 0
    ELSE 10 * DigitsValue(SubSeq(ds, 1, Len(ds) - 1)) + DigitVal(ds[Len(ds)])

AllDigits(ds) == \A i \in 1..Len(ds) : IsDigit(ds[i])

Abs(n) == IF n < 0 THEN -n ELSE n

\* quantize without the rounding argument: ties go to the even neighbour
RoundHalfEven(num, den) ==
    LET q == Abs(num) \div den
        r == Abs(num) % den
        m == IF 2 * r > den \/ (2 * r = den /\ q % 2 = 1) THEN q + 1 ELSE q
    IN  IF num < 0 THEN -m ELSE m

\* Decimal.quantize(TWO_PLACES, rounding=ROUND_HALF_UP) of num/den, den > 0:
\* to the nearest unit, ties away from zero
RoundHalfUp(num, den) ==
    LET q == (2 * Abs(num) + den) \div (2 * den)
    IN  IF num < 0 THEN -q ELSE q

None == <<>>

Some(v) == <<v>>

NoAccount == "None"

-----------------------------------------------------------------------------
(* information_extractor.py: parse_date                                    *)

\* the year datetime.now() reports while parse_date runs
NowYear == 2026

\* str.split('-')
RECURSIVE SplitHyphen(_)
SplitHyphen(s) ==
    IF \A i \in 1..Len(s) : s[i] # "-" THEN <<s>>
    ELSE LET p == CHOOSE i \in 1..Len(s) :
                      s[i] = "-" /\ \A j \in 1..(i - 1) : s[j] # "-"
         IN  <<SubSeq(s, 1, p - 1)>> \o SplitHyphen(SubSeq(s, p + 1, Len(s)))

\* str.strip()
RECURSIVE Strip(_)
Strip(s) ==
    IF Len(s) = 0 THEN s
    ELSE IF IsSpace(s[1]) THEN Strip(Tail(s))
    ELSE IF IsSpace(s[Len(s)]) THEN Strip(SubSeq(s, 1, Len(s) - 1))
    ELSE s

\* what the installed libraries do where their documentation leaves it open:
\*   strftime_pads_year  the C library's strftime writes %Y of a year below
\*                       1000 with four digits (Windows, macOS) or with the
\*                       digits it has (glibc)
\*   astype_keeps_na     Series.astype(str) keeps a missing cell missing
\*                       (pandas 3) or turns it into the text 'nan'
\*   tie_rank            the order DataFrame.sort_values leaves equal keys in
\*                       (the default kind, quicksort, is not stable)
VARIABLE build

IsLeap(y) == (y % 4 = 0 /\ y % 100 # 0) \/ y % 400 = 0

DaysInMonth(y, m) ==
    IF m = 2 THEN (IF IsLeap(y) THEN 29 ELSE 28)
    ELSE IF m \in {4, 6, 9, 11} THEN 30 ELSE 31

\* datetime(y, m, d) is constructible
ValidDate(y, m, d) ==
    y >= 1 /\ y <= 9999 /\ m >= 1 /\ m <= 12 /\ d >= 1 /\ d <= DaysInMonth(y, m)

\* the directives of strptime: the digits a field may hold
FieldOk(part, kind) ==
    /\ AllDigits(part)
    /\ CASE kind = "Y" -> Len(part) = 4
         [] kind = "y" -> Len(part) = 2
         [] kind = "m" -> Len(part) \in {1, 2} /\ DigitsValue(part) \in 1..12
         [] kind = "d" -> Len(part) \in {1, 2} /\ DigitsValue(part) \in 1..31

\* the formats parse_date tries, in order, as the directive of each field
formats_to_try ==
    << <<"d", "m", "Y">>, <<"d", "m", "y">>, <<"Y", "m", "d">>,
       <<"m", "d", "Y">>, <<"m", "d", "y">> >>

FieldOf(parts, fmt, kind) ==
    DigitsValue(parts[CHOOSE i \in 1..3 : fmt[i] = kind \/ (kind = "Y" /\ fmt[i] = "y")])

\* the year strptime gives a two-digit year, then the century heuristic
TwoDigitYear(yy) ==
    LET y == IF yy <= 68 THEN 2000 + yy ELSE 1900 + yy
    IN  IF y > NowYear + 10 THEN y - 100 ELSE y

\* datetime.strptime(date_str, fmt) followed by the two-digit-year branch:
\* <<y, m, d>> in a one-element sequence, or None on ValueError
TryFormat(parts, fmt) ==
    IF Len(parts) # 3 \/ \E i \in 1..3 : ~FieldOk(parts[i], fmt[i]) THEN None
    ELSE LET yRaw == FieldOf(parts, fmt, "Y")
             m    == FieldOf(parts, fmt, "m")
             d    == FieldOf(parts, fmt, "d")
             two  == \E i \in 1..3 : fmt[i] = "y"
             y0   == IF two THEN (IF yRaw <= 68 THEN 2000 + yRaw ELSE 1900 + yRaw)
                     ELSE yRaw
             y    == IF two THEN TwoDigitYear(yRaw) ELSE yRaw
         IN  IF ValidDate(y0, m, d) /\ ValidDate(y, m, d) THEN Some(<<y, m, d>>)
             ELSE None

\* n written with w digits, zero padded
RECURSIVE PadNum(_, _)
PadNum(n, w) ==
    IF w = 0 THEN <<>> ELSE PadNum(n \div 10, w - 1) \o <<Digits[(n % 10) + 1]>>

\* the number of decimal digits of n > 0
RECURSIVE NumDigits(_)
NumDigits(n) == IF n < 10 THEN 1 ELSE 1 + NumDigits(n \div 10)

\* strftime("%Y-%m-%d")
FormatDate(ymd) ==
    PadNum(ymd[1], IF build.strftime_pads_year THEN 4 ELSE NumDigits(ymd[1]))
        \o <<"-">> \o PadNum(ymd[2], 2) \o <<"-">> \o PadNum(ymd[3], 2)

RECURSIVE FirstFormat(_, _)
FirstFormat(parts, k) ==
    IF k > Len(formats_to_try) THEN None
    ELSE LET r == TryFormat(parts, formats_to_try[k])
         IN  IF r # None THEN Some(FormatDate(r[1])) ELSE FirstFormat(parts, k + 1)

\* parse_date(date_str): the date as 'YYYY-MM-DD', or None
parse_date(date_str) ==
    IF Len(date_str) = 0 THEN None
    ELSE LET s1 == Strip(date_str)
             s2 == [i \in 1..Len(s1) |->
                      IF s1[i] = "/" \/ IsSpace(s1[i]) \/ s1[i] = "." THEN "-" ELSE s1[i]]
         IN  FirstFormat(SplitHyphen(s2), 1)

-----------------------------------------------------------------------------
(* information_extractor.py: parse_amount                                  *)

CountChar(s, c) == Cardinality({i \in 1..Len(s) : s[i] = c})

\* str.rfind(c), 0 standing for "not found"
RFind(s, c) ==
    IF CountChar(s, c) = 0 THEN 0
    ELSE CHOOSE i \in 1..Len(s) : s[i] = c /\ \A j \in (i + 1)..Len(s) : s[j] # c

\* str.replace(c, '')
Remove(s, c) == SelectSeq(s, LAMBDA x : x # c)

\* str.replace(c, d) for single characters
ReplaceChar(s, c, d) == [i \in 1..Len(s) |-> IF s[i] = c THEN d ELSE s[i]]

\* len(s.split(c)[1]) when c occurs in s
LenSecondPart(s, c) ==
    LET first == CHOOSE i \in 1..Len(s) : s[i] = c /\ \A j \in 1..(i - 1) : s[j] # c
        rest  == SubSeq(s, first + 1, Len(s))
    IN  IF CountChar(rest, c) = 0 THEN Len(rest)
        ELSE (CHOOSE i \in 1..Len(rest) : rest[i] = c /\ \A j \in 1..(i - 1) : rest[j] # c) - 1

\* NormalizeAmount with the '.' always taken as the decimal separator
NormalizeAmount_PuntoDecimal(amount_str) ==
    LET s0 == SelectSeq(Strip(amount_str),
                        LAMBDA x : ~IsSpace(x) /\ x \notin {"€", "$", "£"})
        has_dot   == CountChar(s0, ".") > 0
        has_comma == CountChar(s0, ",") > 0
    IN  IF has_dot /\ has_comma THEN Remove(s0, ",")
        ELSE IF has_dot THEN
            IF CountChar(s0, ".") = 1 /\ LenSecondPart(s0, ".") = 2 THEN s0
            ELSE IF CountChar(s0, ".") > 1 THEN Remove(s0, ".")
            ELSE s0
        ELSE IF has_comma THEN
            IF CountChar(s0, ",") = 1 /\ LenSecondPart(s0, ",") = 2
            THEN ReplaceChar(s0, ",", ".")
            ELSE IF CountChar(s0, ",") > 1 THEN Remove(s0, ",")
            ELSE s0
        ELSE s0

\* the separator normalisation of parse_amount, up to the call of float()
NormalizeAmount(amount_str) ==
    LET s0 == SelectSeq(Strip(amount_str),
                        LAMBDA x : ~IsSpace(x) /\ x \notin {"€", "$", "£"})
        has_dot   == CountChar(s0, ".") > 0
        has_comma == CountChar(s0, ",") > 0
    IN  IF has_dot /\ has_comma THEN
            IF RFind(s0, ".") > RFind(s0, ",") THEN Remove(s0, ",")
            ELSE ReplaceChar(Remove(s0, "."), ",", ".")
        ELSE IF has_dot THEN
            IF CountChar(s0, ".") = 1 /\ LenSecondPart(s0, ".") = 2 THEN s0
            ELSE IF CountChar(s0, ".") > 1 THEN Remove(s0, ".")
            ELSE s0
        ELSE IF has_comma THEN
            IF CountChar(s0, ",") = 1 /\ LenSecondPart(s0, ",") = 2
            THEN ReplaceChar(s0, ",", ".")
            ELSE IF CountChar(s0, ",") > 1 THEN Remove(s0, ",")
            ELSE s0
        ELSE s0

RECURSIVE Pow10(_)
Pow10(n) == IF n = 0 THEN 1 ELSE 10 * Pow10(n - 1)

\* float(s) for a decimal literal  [sign] digits [. digits]  : the value as
\* [num, dec] (num / 10^dec, no trailing zero in the fraction), or None on
\* ValueError
RECURSIVE Canonical(_, _)
Canonical(num, dec) ==
    IF dec > 0 /\ num % 10 = 0 THEN Canonical(num \div 10, dec - 1)
    ELSE [num |-> num, dec |-> dec]

PyFloat(s) ==
    LET signed == Len(s) > 0 /\ s[1] \in {"-", "+"}
        body   == IF signed THEN Tail(s) ELSE s
        dot    == RFind(body, ".")
        intp   == IF dot = 0 THEN body ELSE SubSeq(body, 1, dot - 1)
        frac   == IF dot = 0 THEN <<>> ELSE SubSeq(body, dot + 1, Len(body))
        mag    == DigitsValue(intp \o frac)
    IN  IF /\ CountChar(body, ".") <= 1
           /\ AllDigits(intp) /\ AllDigits(frac)
           /\ Len(intp) + Len(frac) > 0
        THEN Some(Canonical(IF signed /\ s[1] = "-" THEN -mag ELSE mag, Len(frac)))
        ELSE None

\* parse_amount(amount_str)
parse_amount(amount_str) ==
    IF Len(amount_str) = 0 THEN None ELSE PyFloat(NormalizeAmount(amount_str))

\* Decimal(str(x)) of a parsed amount, in cents (the label patterns of the
\* extractor capture amounts that end in a separator and two digits, which
\* parse_amount turns into at most two decimals)
ToCents(v) == v.num * Pow10(2 - v.dec)

-----------------------------------------------------------------------------
(* asiento_utils.py: constants                                             *)

T_General == <<"G","e","n","e","r","a","l"," ","(","2","1","%",")">>

T_Reducido == <<"R","e","d","u","c","i","d","o"," ","(","1","0","%",")">>

T_Superreducido == <<"S","u","p","e","r","r","e","d","u","c","i","d","o"," ","(","4","%",")">>

T_Exento == <<"E","x","e","n","t","o">>

T_NoSujeto == <<"N","o"," ","S","u","j","e","t","o">>

T_ISP == <<"I","S","P">>

\* the rate table with the general rate under the key "Exento"
IVA_RATES_ExentoGeneral ==
    [k \in {T_General, T_Reducido, T_Superreducido, T_Exento, T_NoSujeto, T_ISP} |->
        CASE k = T_General       -> 2100
          [] k = T_Reducido      -> 1000
          [] k = T_Superreducido -> 400
          [] k = T_Exento        -> 2100
          [] OTHER               -> 0]

\* IVA_RATES, in hundredths of a percent
IVA_RATES ==
    [k \in {T_General, T_Reducido, T_Superreducido, T_Exento, T_NoSujeto, T_ISP} |->
        CASE k = T_General       -> 2100
          [] k = T_Reducido      -> 1000
          [] k = T_Superreducido -> 400
          [] OTHER               -> 0]

\* STANDARD_ACCOUNTS
STANDARD_ACCOUNTS ==
    [IVA_SOPORTADO_GENERAL          |-> "472.21",
     IVA_SOPORTADO_REDUCIDO         |-> "472.10",
     IVA_SOPORTADO_SUPERREDUCIDO    |-> "472.04",
     IVA_REPERCUTIDO_GENERAL        |-> "477.21",
     IVA_REPERCUTIDO_REDUCIDO       |-> "477.10",
     IVA_REPERCUTIDO_SUPERREDUCIDO  |-> "477.04",
     IRPF_RETENCIONES_PROFESIONALES |-> "4751.01",
     IRPF_RETENCIONES_ALQUILERES    |-> "4751.02"]

\* the tolerance Decimal("0.05"), in cents
Tolerance == 5

K_gasto == <<"g","a","s","t","o">>

K_compra == <<"c","o","m","p","r","a">>

K_ingreso == <<"i","n","g","r","e","s","o">>

K_venta == <<"v","e","n","t","a">>

K_exento == <<"e","x","e","n","t","o">>

K_0pct == <<"0","%">>

K_irpf == <<"i","r","p","f">>

K_alquiler == <<"a","l","q","u","i","l","e","r">>

\* "gasto" in op_type_lower or "compra" in op_type_lower
IsGastoCompra(tipo_operacion) ==
    Contains(K_gasto, Lower(tipo_operacion)) \/ Contains(K_compra, Lower(tipo_operacion))

\* "ingreso" in op_type_lower or "venta" in op_type_lower
IsIngresoVenta(tipo_operacion) ==
    Contains(K_ingreso, Lower(tipo_operacion)) \/ Contains(K_venta, Lower(tipo_operacion))

-----------------------------------------------------------------------------
(* asiento_utils.py: the number pattern \d{1,2}(?:[.,]\d{1,2})? of both     *)
(* tax functions                                                           *)

\* n digits at position i, then (m > 0) a separator and m digits
NumberFits(s, i, n, m) ==
    /\ \A j \in i..(i + n - 1) : IsDigit(CharAt(s, j))
    /\ m > 0 => /\ CharAt(s, i + n) \in {".", ","}
                /\ \A j \in (i + n + 1)..(i + n + m) : IsDigit(CharAt(s, j))

NumberEnd(i, n, m) == i + n + (IF m > 0 THEN m + 1 ELSE 0)

\* Decimal(group.replace(',', '.')) / Decimal("100"), in hundredths of a percent
NumberRate(s, i, n, m) ==
    100 * DigitsValue(SubSeq(s, i, i + n - 1))
    + (IF m = 0 THEN 0
       ELSE DigitsValue(SubSeq(s, i + n + 1, i + n + m)) * Pow10(2 - m))

\* the ways the pattern can take its digits, in the order the regex engine
\* tries them (greedy)
NumberShapes == << <<2, 2>>, <<2, 1>>, <<2, 0>>, <<1, 2>>, <<1, 1>>, <<1, 0>> >>

\* re.match(r'(\d{1,2}(?:[.,]\d{1,2})?)\s*%', s): the rate of group 1, or None
MatchPercent(s) ==
    LET ok(k) == /\ NumberFits(s, 1, NumberShapes[k][1], NumberShapes[k][2])
                 /\ CharAt(s, SkipSpace(s, NumberEnd(1, NumberShapes[k][1], NumberShapes[k][2]))) = "%"
    IN  IF \E k \in 1..6 : ok(k)
        THEN LET k == CHOOSE k \in 1..6 : ok(k) /\ \A h \in 1..(k - 1) : ~ok(h)
             IN  Some(NumberRate(s, 1, NumberShapes[k][1], NumberShapes[k][2]))
        ELSE None

\* re.search(r'IRPF\s*(?:\(\s*|s/)?(\d{1,2}(?:[.,]\d{1,2})?)\s*%?', s,
\* re.IGNORECASE): the rate of group 1 of the leftmost match, or None
IRPFNumberStart(s, i) ==
    LET j == SkipSpace(s, i + 4)
    IN  IF CharAt(s, j) = "(" THEN SkipSpace(s, j + 1)
        ELSE IF LowerChar(CharAt(s, j)) = "s" /\ CharAt(s, j + 1) = "/" THEN j + 2
        ELSE j

IRPFMatchAt(s, i) ==
    /\ i + 3 <= Len(s)
    /\ Lower(SubSeq(s, i, i + 3)) = K_irpf
    /\ IsDigit(CharAt(s, IRPFNumberStart(s, i)))

SearchIRPF(s) ==
    IF \E i \in 1..Len(s) : IRPFMatchAt(s, i)
    THEN LET i == CHOOSE i \in 1..Len(s) :
                     IRPFMatchAt(s, i) /\ \A h \in 1..(i - 1) : ~IRPFMatchAt(s, h)
             b == IRPFNumberStart(s, i)
             k == CHOOSE k \in 1..6 :
                     /\ NumberFits(s, b, NumberShapes[k][1], NumberShapes[k][2])
                     /\ \A h \in 1..(k - 1) :
                            ~NumberFits(s, b, NumberShapes[h][1], NumberShapes[h][2])
         IN  Some(NumberRate(s, b, NumberShapes[k][1], NumberShapes[k][2]))
    ELSE None

-----------------------------------------------------------------------------
(* asiento_utils.py: calculate_iva_details, calculate_irpf_details         *)

NoResult == [amount |-> None, account |-> NoAccount, difference |-> None]

\* the rate calculate_iva_details resolves for iva_type_str, or None when it
\* returns (None, None, None)
ResolveIvaRate(iva_type_str) ==
    IF iva_type_str \in DOMAIN IVA_RATES THEN Some(IVA_RATES[iva_type_str])
    ELSE IF MatchPercent(iva_type_str) # None THEN MatchPercent(iva_type_str)
    ELSE IF Contains(K_0pct, Lower(iva_type_str)) \/ Contains(K_exento, Lower(iva_type_str))
         THEN Some(0)
    ELSE None

\* the account buckets without the ones of the 4% rate
IvaAccountFor_SinSuperreducido(iva_rate, iva_type_str, tipo_operacion) ==
    LET byOp ==
            IF Len(tipo_operacion) = 0 THEN NoAccount
            ELSE IF IsGastoCompra(tipo_operacion) THEN
                CASE iva_rate = 2100 -> STANDARD_ACCOUNTS.IVA_SOPORTADO_GENERAL
                  [] iva_rate = 1000 -> STANDARD_ACCOUNTS.IVA_SOPORTADO_REDUCIDO
                  [] OTHER           -> NoAccount
            ELSE IF IsIngresoVenta(tipo_operacion) THEN
                CASE iva_rate = 2100 -> STANDARD_ACCOUNTS.IVA_REPERCUTIDO_GENERAL
                  [] iva_rate = 1000 -> STANDARD_ACCOUNTS.IVA_REPERCUTIDO_REDUCIDO
                  [] OTHER           -> NoAccount
            ELSE NoAccount
        isp == IF iva_type_str = T_ISP /\ iva_rate = 2100
               THEN STANDARD_ACCOUNTS.IVA_SOPORTADO_GENERAL ELSE byOp
    IN  IF iva_rate = 0 /\ iva_type_str # T_ISP THEN NoAccount ELSE isp

\* the account bucket chosen from the operation type and the rate
IvaAccountFor(iva_rate, iva_type_str, tipo_operacion) ==
    LET byOp ==
            IF Len(tipo_operacion) = 0 THEN NoAccount
            ELSE IF IsGastoCompra(tipo_operacion) THEN
                CASE iva_rate = 2100 -> STANDARD_ACCOUNTS.IVA_SOPORTADO_GENERAL
                  [] iva_rate = 1000 -> STANDARD_ACCOUNTS.IVA_SOPORTADO_REDUCIDO
                  [] iva_rate = 400  -> STANDARD_ACCOUNTS.IVA_SOPORTADO_SUPERREDUCIDO
                  [] OTHER           -> NoAccount
            ELSE IF IsIngresoVenta(tipo_operacion) THEN
                CASE iva_rate = 2100 -> STANDARD_ACCOUNTS.IVA_REPERCUTIDO_GENERAL
                  [] iva_rate = 1000 -> STANDARD_ACCOUNTS.IVA_REPERCUTIDO_REDUCIDO
                  [] iva_rate = 400  -> STANDARD_ACCOUNTS.IVA_REPERCUTIDO_SUPERREDUCIDO
                  [] OTHER           -> NoAccount
            ELSE NoAccount
        isp == IF iva_type_str = T_ISP /\ iva_rate = 2100
               THEN STANDARD_ACCOUNTS.IVA_SOPORTADO_GENERAL ELSE byOp
    IN  IF iva_rate = 0 /\ iva_type_str # T_ISP THEN NoAccount ELSE isp

\* a calculate_iva_details that returns the extracted amount when there is one
calculate_iva_details_ExtraidoGana(base_imponible, iva_type_str, cuota_iva_extracted, tipo_operacion) ==
    IF base_imponible = None \/ Len(iva_type_str) = 0 THEN NoResult
    ELSE IF ResolveIvaRate(iva_type_str) = None THEN NoResult
    ELSE LET iva_rate == ResolveIvaRate(iva_type_str)[1]
             calculated_cuota_iva == RoundHalfUp(base_imponible[1] * iva_rate, 10000)
         IN  [amount     |-> IF cuota_iva_extracted = None
                             THEN Some(calculated_cuota_iva) ELSE cuota_iva_extracted,
              account    |-> IvaAccountFor(iva_rate, iva_type_str, tipo_operacion),
              difference |-> IF cuota_iva_extracted = None THEN None
                             ELSE Some(calculated_cuota_iva - cuota_iva_extracted[1])]

\* calculate_iva_details(base_imponible, iva_type_str, cuota_iva_extracted,
\* tipo_operacion); base_imponible and cuota_iva_extracted are Optional
calculate_iva_details(base_imponible, iva_type_str, cuota_iva_extracted, tipo_operacion) ==
    IF base_imponible = None \/ Len(iva_type_str) = 0 THEN NoResult
    ELSE IF ResolveIvaRate(iva_type_str) = None THEN NoResult
    ELSE LET iva_rate == ResolveIvaRate(iva_type_str)[1]
             calculated_cuota_iva == RoundHalfUp(base_imponible[1] * iva_rate, 10000)
         IN  [amount     |-> Some(calculated_cuota_iva),
              account    |-> IvaAccountFor(iva_rate, iva_type_str, tipo_operacion),
              difference |-> IF cuota_iva_extracted = None THEN None
                             ELSE Some(calculated_cuota_iva - cuota_iva_extracted[1])]

\* calculate_irpf_details(base_imponible, special_treatment_str,
\* retencion_irpf_extracted)
calculate_irpf_details(base_imponible, special_treatment_str, retencion_irpf_extracted) ==
    IF base_imponible = None \/ Len(special_treatment_str) = 0 THEN NoResult
    ELSE IF SearchIRPF(special_treatment_str) = None THEN NoResult
    ELSE LET irpf_rate == SearchIRPF(special_treatment_str)[1]
             calculated_irpf == RoundHalfUp(base_imponible[1] * irpf_rate, 10000)
         IN  [amount     |-> Some(calculated_irpf),
              account    |-> IF Contains(K_alquiler, Lower(special_treatment_str))
                             THEN STANDARD_ACCOUNTS.IRPF_RETENCIONES_ALQUILERES
                             ELSE STANDARD_ACCOUNTS.IRPF_RETENCIONES_PROFESIONALES,
              difference |-> IF retencion_irpf_extracted = None THEN None
                             ELSE Some(calculated_irpf - retencion_irpf_extracted[1])]

-----------------------------------------------------------------------------
(* asiento_utils.py: format_concepto                                       *)
(* A template is the sequence of its parts: literal text (ph = "") or a    *)
(* replacement field {ph}.  extracted_info is a function from the keys it  *)
(* holds to Optional strings.  Templates with other brace forms (a lone    *)
(* brace, {}, {a.b}, {a:>3}) are outside the model.                        *)

\* the names bound in the module namespace of asiento_utils once it is
\* imported: lines 1-5, the assignments and defs, and the import of line 333
asiento_utils_globals ==
    { "logging", "Decimal", "ROUND_HALF_UP", "Optional", "Dict", "Any", "List",
      "Tuple", "logger", "IVA_RATES", "STANDARD_ACCOUNTS",
      "calculate_iva_details", "calculate_irpf_details", "format_concepto", "re" }

Lit(text) == [ph |-> "", lit |-> text]

Ph(name) == [ph |-> name, lit |-> <<>>]

\* lines 214-219: the template used when the rule gives none
DefaultPatron(extracted_info) ==
    LET get(k) == k \in DOMAIN extracted_info /\ extracted_info[k] \notin {None, Some(<<>>)}
    IN  IF get("proveedor_nombre") THEN
            << Lit(<<"F","/">>), Ph("proveedor_nombre_short"), Lit(<<" ","N",".">>),
               Ph("numero_factura"), Lit(<<" ","F",".">>), Ph("fecha_factura_short") >>
        ELSE IF get("cliente_nombre") THEN
            << Lit(<<"F","/">>), Ph("cliente_nombre_short"), Lit(<<" ","N",".">>),
               Ph("numero_factura"), Lit(<<" ","F",".">>), Ph("fecha_factura_short") >>
        ELSE << Lit(<<"O","p","."," ","s","/","d","o","c"," ","N","."," ">>), Ph("numero_factura"), Lit(<<" ","d","e"," ">>),
                Ph("fecha_factura") >>

\* lines 229-234 once datetime is resolved: strptime(v, "%Y-%m-%d") and
\* strftime("%d/%m/%y"), or v itself on ValueError
FechaShort(v) ==
    LET r == TryFormat(SplitHyphen(v), <<"Y", "m", "d">>)
    IN  IF r = None THEN v
        ELSE PadNum(r[1][3], 2) \o <<"/">> \o PadNum(r[1][2], 2) \o <<"/">>
                 \o PadNum(r[1][1] % 100, 2)

\* format_concepto(concepto_patron, extracted_info): the exception raised
\* ("" for none) and the string returned
format_concepto(concepto_patron, extracted_info) ==
    LET get(k) == k \in DOMAIN extracted_info /\ extracted_info[k] \notin {None, Some(<<>>)}
        patron == IF concepto_patron = <<>> THEN DefaultPatron(extracted_info)
                  ELSE concepto_patron
        short  == {k \in {"proveedor_nombre", "cliente_nombre", "fecha_factura"} : get(k)}
        \* lines 223-234: data_for_format, then line 243: None becomes ''
        safe_data_for_format(k) ==
            IF k = "proveedor_nombre_short" /\ "proveedor_nombre" \in short
                THEN Some(SubSeq(extracted_info["proveedor_nombre"][1], 1,
                     IF Len(extracted_info["proveedor_nombre"][1]) < 20
                     THEN Len(extracted_info["proveedor_nombre"][1]) ELSE 20))
            ELSE IF k = "cliente_nombre_short" /\ "cliente_nombre" \in short
                THEN Some(SubSeq(extracted_info["cliente_nombre"][1], 1,
                     IF Len(extracted_info["cliente_nombre"][1]) < 20
                     THEN Len(extracted_info["cliente_nombre"][1]) ELSE 20))
            ELSE IF k = "fecha_factura_short" /\ "fecha_factura" \in short
                THEN Some(FechaShort(extracted_info["fecha_factura"][1]))
            ELSE IF k \in DOMAIN extracted_info
                THEN (IF extracted_info[k] = None THEN Some(<<>>) ELSE extracted_info[k])
            ELSE None
        \* lines 246-251
        part(t) == IF t.ph = "" THEN t.lit
                   ELSE IF safe_data_for_format(t.ph) = None THEN <<"[","n","/","d","]">>
                   ELSE safe_data_for_format(t.ph)[1]
        filled[i \in 0..Len(patron)] ==
            IF i = 0 THEN <<>> ELSE filled[i - 1] \o part(patron[i])
        formatted_concepto == filled[Len(patron)]
        MAX_CONCEPTO_LENGTH == 38
    IN  IF "fecha_factura" \in short /\ "datetime" \notin asiento_utils_globals
        THEN [raised |-> "NameError", value |-> <<>>]
        ELSE [raised |-> "",
              value  |-> Strip(IF Len(formatted_concepto) > MAX_CONCEPTO_LENGTH
                               THEN SubSeq(formatted_concepto, 1, MAX_CONCEPTO_LENGTH - 3)
                                        \o <<".",".",".">>
                               ELSE formatted_concepto)]

-----------------------------------------------------------------------------
(* Inputs: classified transactions and source texts                        *)

T_IVA10 == <<"I","V","A"," ","1","0","%">>

T_Pct5 == <<"5","%">>

ST_RetencionAlquiler == <<"R","e","t","e","n","c","i","o","n"," ","A","l","q","u","i","l","e","r"," ","(","1","9","%",")">>

ST_IRPF15 == <<"I","R","P","F"," ","(","1","5","%",")">>

ST_IRPFAlquiler == <<"I","R","P","F"," ","1","9","%"," ","a","l","q","u","i","l","e","r">>

ST_Exento == <<"E","x","e","n","t","o">>

OP_GastoAlquiler == <<"G","a","s","t","o"," ","A","l","q","u","i","l","e","r">>

OP_CompraISP == <<"C","o","m","p","r","a"," ","c","o","n"," ","I","S","P">>

OP_Ingreso == <<"I","n","g","r","e","s","o"," ","P","r","e","s","t","a","c","i","o","n"," ","S","e","r","v","i","c","i","o","s">>

OP_Traspaso == <<"T","r","a","s","p","a","s","o">>

\* the tax types a rule may carry: the keys of IVA_RATES and two strings
\* outside the table
IVATypes ==
    {T_General, T_Reducido, T_Superreducido, T_Exento, T_NoSujeto, T_ISP,
     T_IVA10, T_Pct5}

SpecialTreatments ==
    {<<>>, ST_RetencionAlquiler, ST_IRPF15, ST_IRPFAlquiler, ST_Exento}

\* TipoOperacion, Account and Contrapartida of a rule; the last one has no
\* operation type and is not valid for entry generation
RuleShapes ==
    { [TipoOperacion |-> OP_GastoAlquiler, Account |-> "621", Contrapartida |-> "410"],
      [TipoOperacion |-> OP_CompraISP,     Account |-> "600", Contrapartida |-> "400"],
      [TipoOperacion |-> OP_Ingreso,       Account |-> "705", Contrapartida |-> "430"],
      [TipoOperacion |-> OP_Traspaso,      Account |-> "570", Contrapartida |-> "572"],
      [TipoOperacion |-> <<>>,             Account |-> "629", Contrapartida |-> "410"] }

\* number of sample amounts a text may show as its taxable base
MaxBaseSamples == 4

AmountSamples ==
    << <<"1","0","0","0",".","0","0">>, <<"1","2","3",",","4","5">>, <<"0",",","0","0">>, <<"-","5","0",",","2","5">>, <<"1",".","2","3","4",",","5","6">>, <<"8","0",".","0","0">> >>

BaseCaptures ==
    {<<>>} \cup {AmountSamples[i] : i \in 1..(IF MaxBaseSamples < Len(AmountSamples)
                                             THEN MaxBaseSamples ELSE Len(AmountSamples))}

TotalCaptures == {<<>>, <<"0",",","0","0">>, <<"1","0","2","0",".","0","0">>, <<"1",".","2","1","0",",","0","0">>, <<"-","5","0",",","2","5">>}

CuotaCaptures == {<<>>, <<"2","1","0",".","0","0">>}

RetencionCaptures == {<<>>, <<"1","9","0",",","0","0">>}

DateCaptures == {<<>>, <<"0","1","/","1","1","/","2","0","2","3">>, <<"9","9","/","9","9","/","9","9","9","9">>}

\* what the label patterns of PATTERNS capture in a source text: for each
\* field the text of group 1 of the first match, <<>> when nothing matches
Texts ==
    [fecha_factura : DateCaptures, base_imponible : BaseCaptures,
     cuota_iva : CuotaCaptures, retencion_irpf : RetencionCaptures,
     total_factura : TotalCaptures]

\* values a caller may have put in extracted_info before the call
PrepopulatedDates == {None, Some(<<"2","0","2","3","-","1","1","-","0","1">>)}

-----------------------------------------------------------------------------
(* information_extractor.py: extract_invoice_details                       *)

\* the amount fields: parse_amount, None kept when it fails
ExtractAmount(capture) ==
    IF capture = <<>> THEN None
    ELSE IF parse_amount(capture) = None THEN None
    ELSE Some(ToCents(parse_amount(capture)[1]))

extract_invoice_details(text) ==
    [fecha_factura  |-> IF text.fecha_factura = <<>> THEN None
                        ELSE parse_date(text.fecha_factura),
     base_imponible |-> ExtractAmount(text.base_imponible),
     cuota_iva      |-> ExtractAmount(text.cuota_iva),
     retencion_irpf |-> ExtractAmount(text.retencion_irpf),
     total_factura  |-> ExtractAmount(text.total_factura)]

-----------------------------------------------------------------------------
(* reglas_clasificacion/utils.py: the rules table, load_rules, match_rule  *)

\* str.split(',')
RECURSIVE SplitComma(_)
SplitComma(s) ==
    IF \A i \in 1..Len(s) : s[i] # "," THEN <<s>>
    ELSE LET p == CHOOSE i \in 1..Len(s) :
                      s[i] = "," /\ \A j \in 1..(i - 1) : s[j] # ","
         IN  <<SubSeq(s, 1, p - 1)>> \o SplitComma(SubSeq(s, p + 1, Len(s)))

\* str(float('nan')), what astype(str) makes of a missing cell of an object
\* column
K_nan == <<"n","a","n">>

\* rows of the rules sheet as read_excel(dtype=str) gives them: a cell is
\* Some(text), None when it is empty; of the text columns Keywords and
\* Account are kept
Row_Luz ==
    [Keywords |-> Some(<<"l","u","z",","," ","g","a","s">>), Priority |-> Some(<<"1","0">>), Account |-> "628"]

Row_LuzMayusculas ==
    [Keywords |-> Some(<<"L","U","Z">>), Priority |-> Some(<<"1","0">>), Account |-> "629"]

Row_Alquiler ==
    [Keywords |-> Some(<<"a","l","q","u","i","l","e","r">>), Priority |-> Some(<<"8">>), Account |-> "621"]

\* a row whose Keywords cell is empty
Row_SinKeywords ==
    [Keywords |-> None, Priority |-> Some(<<"1","2">>), Account |-> "640"]

\* a row whose Keywords cell holds blanks only, and whose Priority cell is empty
Row_Blancos ==
    [Keywords |-> Some(<<" ",","," ">>), Priority |-> None, Account |-> "649"]

\* the sheets: the empty one, the same rows in both orders, rows of equal
\* Priority, rows without keywords
RuleTables ==
    { <<>>,
      <<Row_Luz, Row_Alquiler>>, <<Row_Alquiler, Row_Luz>>,
      <<Row_Luz, Row_LuzMayusculas>>, <<Row_LuzMayusculas, Row_Luz>>,
      <<Row_Alquiler, Row_LuzMayusculas, Row_Luz>>,
      <<Row_SinKeywords, Row_Alquiler>>,
      <<Row_Blancos, Row_SinKeywords>>,
      <<Row_Blancos, Row_Luz>> }

\* the number of rows of the longest sheet
LongestTable ==
    CHOOSE n \in {Len(t) : t \in RuleTables} : \A t \in RuleTables : Len(t) <= n

\* the texts handed to classify_text_content
TextContents ==
    { <<>>,
      <<"F","a","c","t","u","r","a"," ","L","u","z">>,
      <<"a","l","q","u","i","l","e","r"," ","y"," ","l","u","z">>,
      <<"p","l","a","n"," ","a","n","u","a","l">>,
      <<"a","l","q","u","i","l","e","r"," ","d","e"," ","b","a","n","a","n","a","s">> }

\* the orders a sort may give n rows of equal Priority: the permutations of 1..n
TieRanks(n) ==
    {f \in [1..n -> 1..n] : \A i, j \in 1..n : i # j => f[i] # f[j]}

\* pd.to_numeric(col, errors='coerce').fillna(0).astype(int) on one cell
ToNumericCell(cell) ==
    IF cell = None THEN 0
    ELSE IF Len(cell[1]) > 0 /\ AllDigits(cell[1]) THEN DigitsValue(cell[1])
    ELSE 0

\* col.astype(str).fillna('') on one cell; astype(str) either keeps the
\* missing value, which fillna then replaces, or turns it into 'nan'
AsTypeStrCell(cell, astype_keeps_na) ==
    IF cell # None THEN cell[1]
    ELSE IF astype_keeps_na THEN <<>> ELSE K_nan

\* lines 197-215 of load_rules: the columns converted to their types
ConvertColumns(rows, astype_keeps_na) ==
    [i \in 1..Len(rows) |->
        [Keywords |-> AsTypeStrCell(rows[i].Keywords, astype_keeps_na),
         Priority |-> ToNumericCell(rows[i].Priority),
         Account  |-> rows[i].Account]]

\* rules_df.sort_values(by="Priority", ascending=False).reset_index(drop=True)
\* with the default kind='quicksort', which is not a stable sort: rows of
\* equal Priority come in the order tie_rank, a property of the build
sort_values(rows, tie_rank) ==
    LET n == Len(rows)
        Before(i, j) ==
            \/ rows[i].Priority > rows[j].Priority
            \/ rows[i].Priority = rows[j].Priority /\ tie_rank[i] < tie_rank[j]
    IN  [k \in 1..n |->
            rows[CHOOSE i \in 1..n : Cardinality({j \in 1..n : Before(j, i)}) = k - 1]]

\* the keywords of a rule: [kw.strip().lower() for kw in keywords_str.split(',')]
rule_keywords(keywords_str) ==
    LET parts == SplitComma(keywords_str)
    IN  [i \in 1..Len(parts) |-> Lower(Strip(parts[i]))]

\* lines 273-290 of match_rule: the rule is not skipped and one of its
\* non-empty keywords is in the lower-cased text
RuleMatches(rule, text_content_lower) ==
    /\ rule.Keywords # <<>>
    /\ \E i \in 1..Len(rule_keywords(rule.Keywords)) :
          /\ rule_keywords(rule.Keywords)[i] # <<>>
          /\ Contains(rule_keywords(rule.Keywords)[i], text_content_lower)

\* match_rule(text_content, rules_df); rules_df is Optional, the rows of the
\* DataFrame in index order
match_rule(text_content, rules_df) ==
    IF text_content = <<>> \/ rules_df = None THEN None
    ELSE IF Len(rules_df[1]) = 0 THEN None
    ELSE LET df == rules_df[1]
             hits == {i \in 1..Len(df) : RuleMatches(df[i], Lower(text_content))}
         IN  IF hits = {} THEN None
             ELSE Some(df[CHOOSE i \in hits : \A j \in hits : i <= j])

VARIABLES
    rules_file,          \* the rules sheet on disk: exists, rows, mtime
    CACHED_RULES,        \* utils.CACHED_RULES: None or the loaded DataFrame
    RULES_FILE_LAST_MODIFIED, \* utils.RULES_FILE_LAST_MODIFIED
    llamada              \* the running classify_text_content call

clasificador == <<rules_file, build, CACHED_RULES, RULES_FILE_LAST_MODIFIED, llamada>>

-----------------------------------------------------------------------------
(* main.py: AsientoContable and generate_asiento                           *)

VARIABLES
    pc,                  \* position of the running generate_asiento call
    classified_transaction, \* the ClassifiedTransaction passed to the call
    extracted_details,   \* result of extract_invoice_details
    loc,                 \* local variables of generate_asiento
    asiento,             \* the AsientoContable under construction
    result               \* "pending", "asiento" (returned), "None" (returned) or "raised"

generador == <<pc, classified_transaction, extracted_details, loc, asiento, result>>

\* a call of parse_date, parse_amount or format_concepto on its own: the
\* function, its argument, its return value
VARIABLE parse_call

\* load_rules called by several threads, with the rules file at one of
\* two paths
VARIABLES
    archivos,            \* the rules file at each path: rows, mtime
    configured_path,     \* the path get_rules_file_path resolves to now
    RULES_FILE_PATH,     \* utils.RULES_FILE_PATH
    heap,                \* the DataFrame objects, in order of allocation
    hilos                \* the classify_text_content call of each thread

carga == <<archivos, configured_path, RULES_FILE_PATH, heap, hilos>>

\* the Drive listener: the folder it polls, its table of processed files,
\* the sheet it writes, and the position of run_listener in its loop
VARIABLES
    drive_files,         \* the files of the Drive folder: None or the item
    processed_files,     \* table processed_files: None or the row of each id
    engine,              \* the database engine: what a DateTime column reads back as
    sheet_rows,             \* the entries written to the sheet, in order
    bucle                \* run_listener: position, new_files, the file in hand

escucha == <<drive_files, processed_files, engine, sheet_rows, bucle>>

vars == <<generador, clasificador, parse_call, carga, escucha>>

\* a sentence of review_reason; arg carries the text interpolated into it
Reason(t) == [text |-> t, arg |-> <<>>]

R_Fecha == Reason("Fecha de factura no encontrada.")

R_Cero == Reason("Base imponible y total son cero. Verificar.")

R_IVA0 == Reason("IVA 0% detectado. Confirmar si es Exento y tratamiento contable.")

R_DiscrepanciaSola == Reason("Discrepancia total calculado vs extraido.")

R_DiscrepanciaMas == Reason(" Discrepancia entre total calculado y extraido.")

R_Descuadrado == Reason("Asiento descuadrado.")

R_DescuadradoMas == Reason(" Asiento descuadrado.")

R_TipoNoSoportado(tipo) == [text |-> "Tipo de operacion no soportado: ", arg |-> tipo]

\* AsientoContable.__init__ ; review_reason is the sequence of the sentences
\* concatenated so far, <<>> for None
AsientoContable(fecha) ==
    [fecha |-> fecha, apuntes |-> <<>>,
     needs_manual_review |-> FALSE, review_reason |-> <<>>]

\* ApunteContable.__init__
ApunteContable(cuenta, debe, haber) == [cuenta |-> cuenta, debe |-> debe, haber |-> haber]

\* AsientoContable.add_apunte
add_apunte(a, cuenta, debe, haber) ==
    [a EXCEPT !.apuntes = Append(@, ApunteContable(cuenta, debe, haber))]

RECURSIVE SumDebe(_)
SumDebe(apuntes) ==
    IF Len(apuntes) = 0 THEN 0 ELSE Head(apuntes).debe + SumDebe(Tail(apuntes))

RECURSIVE SumHaber(_)
SumHaber(apuntes) ==
    IF Len(apuntes) = 0 THEN 0 ELSE Head(apuntes).haber + SumHaber(Tail(apuntes))

\* a balance check that only rejects an excess of credit
is_cuadrado_SoloHaber(a) == SumDebe(a.apuntes) >= SumHaber(a.apuntes)

\* AsientoContable.is_cuadrado
is_cuadrado(a) == SumDebe(a.apuntes) = SumHaber(a.apuntes)

\* ClassifiedTransaction.is_valid_for_asiento
is_valid_for_asiento(ct) == ct.account # "" /\ Len(ct.tipo_operacion) > 0

\* ClassifiedTransaction.__init__ followed by what a caller put in
\* extracted_info
ClassifiedTransaction(shape, iva_type, special_treatment, text, fecha_previa) ==
    [account |-> shape.Account, contrapartida |-> shape.Contrapartida,
     tipo_operacion |-> shape.TipoOperacion, iva_type |-> iva_type,
     special_treatment |-> special_treatment, original_text |-> text,
     extracted_info |-> [fecha_factura |-> fecha_previa, base_imponible |-> None,
                         cuota_iva |-> None, retencion_irpf |-> None,
                         total_factura |-> None]]

NoDetails ==
    [fecha_factura |-> None, base_imponible |-> None, cuota_iva |-> None,
     retencion_irpf |-> None, total_factura |-> None]

NoLocals ==
    [base_imponible |-> 0, total_factura_ext |-> 0,
     cuota_iva_ext |-> None, retencion_irpf_ext |-> None,
     calculated_iva |-> None, iva_account |-> NoAccount, iva_difference |-> None,
     calculated_irpf |-> None, irpf_account |-> NoAccount, irpf_difference |-> None]

\* x if x else Decimal("0.00")
OrZero(opt) == IF opt = None THEN 0 ELSE opt[1]

\* the truth value of an Optional[Decimal]
Truthy(opt) == opt # None /\ opt[1] # 0

\* no classify_text_content call, no rules sheet, nothing cached
LlamadaEnReposo ==
    [pc |-> "idle", text_content |-> <<>>, force_reload |-> FALSE,
     modified_time |-> None, sheet |-> None, rules_df |-> None, ret |-> None]

\* no call of a parser on its own
ParserEnReposo == [fn |-> "none", pc |-> "idle", arg |-> <<>>, ret |-> None]

\* the threads and the paths of the rules file (the local path of the
\* configuration and the path of the copy downloaded from Drive)
Threads == {1, 2}

Paths == {"local", "drive"}

HiloEnReposo ==
    [pc |-> "idle", text_content |-> <<>>, force_reload |-> FALSE,
     current_rules_file_path |-> "local", modified_time |-> 0,
     rules_df |-> None, snapshot |-> None, ret |-> None]

\* no thread, no file, nothing loaded
CargaEnReposo ==
    /\ archivos = [p \in Paths |-> [rows |-> <<>>, mtime |-> 0]]
    /\ configured_path = "local"
    /\ RULES_FILE_PATH = None
    /\ heap = <<>>
    /\ hilos = [t \in Threads |-> HiloEnReposo]

FileIds == {"f1", "f2"}

BucleEnReposo ==
    [pc |-> "sleep", items |-> <<>>, new_files |-> <<>>, exc |-> "",
     file_data |-> None, asiento_contable |-> None]

\* an empty folder, an empty table, an empty sheet, the listener asleep
EscuchaEnReposo ==
    /\ drive_files = [f \in FileIds |-> None]
    /\ processed_files = [f \in FileIds |-> None]
    /\ engine = [keeps_tzinfo |-> TRUE]
    /\ sheet_rows = <<>>
    /\ bucle = BucleEnReposo

ClasificadorEnReposo ==
    /\ rules_file = [exists |-> FALSE, rows |-> <<>>, mtime |-> 0]
    /\ build = [strftime_pads_year |-> TRUE, astype_keeps_na |-> TRUE,
                tie_rank |-> [i \in 1..LongestTable |-> i]]
    /\ CACHED_RULES = None
    /\ RULES_FILE_LAST_MODIFIED = None
    /\ llamada = LlamadaEnReposo

Init ==
    /\ pc = "start"
    /\ \E shape \in RuleShapes, iva_type \in IVATypes, st \in SpecialTreatments,
          text \in Texts, previa \in PrepopulatedDates :
          classified_transaction = ClassifiedTransaction(shape, iva_type, st, text, previa)
    /\ extracted_details = NoDetails
    /\ loc = NoLocals
    /\ asiento = AsientoContable(<<>>)
    /\ result = "pending"
    /\ ClasificadorEnReposo
    /\ parse_call = ParserEnReposo
    /\ CargaEnReposo
    /\ EscuchaEnReposo

\* lines 79-81: the transaction is not valid, None is returned
RejectInvalid ==
    /\ pc = "start"
    /\ ~is_valid_for_asiento(classified_transaction)
    /\ pc' = "done"
    /\ result' = "None"
    /\ UNCHANGED <<classified_transaction, extracted_details, loc, asiento>>
    /\ UNCHANGED <<clasificador, parse_call, carga, escucha>>

\* lines 88-89: run the extractor, update the transaction's extracted_info
Extract ==
    /\ pc = "start"
    /\ is_valid_for_asiento(classified_transaction)
    /\ extracted_details' = extract_invoice_details(classified_transaction.original_text)
    /\ classified_transaction' =
          [classified_transaction EXCEPT !.extracted_info = extracted_details']
    /\ pc' = "fecha"
    /\ UNCHANGED <<loc, asiento, result>>
    /\ UNCHANGED <<clasificador, parse_call, carga, escucha>>

PlaceholderFecha == <<"Y","Y","Y","Y","-","M","M","-","D","D">>

\* the placeholder entry without its review flag
AsientoSinFecha_SinRevision ==
    [AsientoContable(PlaceholderFecha) EXCEPT !.review_reason = <<R_Fecha>>]

\* lines 96-101: the entry returned when no invoice date was found
AsientoSinFecha ==
    [AsientoContable(PlaceholderFecha) EXCEPT !.needs_manual_review = TRUE,
                                              !.review_reason = <<R_Fecha>>]

\* lines 92-102: no invoice date, the placeholder entry is returned
FechaNoEncontrada ==
    /\ pc = "fecha"
    /\ extracted_details.fecha_factura = None
    /\ asiento' = AsientoSinFecha
    /\ result' = "asiento"
    /\ pc' = "done"
    /\ UNCHANGED <<classified_transaction, extracted_details, loc>>
    /\ UNCHANGED <<clasificador, parse_call, carga, escucha>>

\* lines 115-118: the extracted amounts as locals of generate_asiento
ConvertedLocals(details) ==
    [NoLocals EXCEPT !.base_imponible = details.base_imponible[1],
                     !.cuota_iva_ext = details.cuota_iva,
                     !.retencion_irpf_ext = details.retencion_irpf,
                     !.total_factura_ext = details.total_factura[1]]

\* lines 104-118: create the entry, convert the extracted amounts;
\* Decimal(str(None)) raises InvalidOperation
ConvertAmounts ==
    /\ pc = "fecha"
    /\ extracted_details.fecha_factura # None
    /\ asiento' = AsientoContable(extracted_details.fecha_factura[1])
    /\ IF extracted_details.base_imponible = None \/ extracted_details.total_factura = None
       THEN /\ result' = "raised"
            /\ pc' = "done"
            /\ loc' = loc
       ELSE /\ loc' = ConvertedLocals(extracted_details)
            /\ pc' = "cero"
            /\ result' = result
    /\ UNCHANGED <<classified_transaction, extracted_details>>
    /\ UNCHANGED <<clasificador, parse_call, carga, escucha>>

\* the zero check raising the flag and recording no reason
CeroAsiento_SinMotivo(a, ct, l) ==
    IF /\ l.base_imponible = 0 /\ l.total_factura_ext = 0
       /\ ~(\/ ct.iva_type \in {T_Exento, T_NoSujeto}
            \/ Contains(K_0pct, ct.iva_type))
    THEN [a EXCEPT !.needs_manual_review = TRUE]
    ELSE a

\* lines 120-126: the entry after the zero check
CeroAsiento(a, ct, l) ==
    IF /\ l.base_imponible = 0 /\ l.total_factura_ext = 0
       /\ ~(\/ ct.iva_type \in {T_Exento, T_NoSujeto}
            \/ Contains(K_0pct, ct.iva_type))
    THEN [a EXCEPT !.needs_manual_review = TRUE, !.review_reason = <<R_Cero>>]
    ELSE a

\* lines 120-126: zero base and zero total
CheckCero ==
    /\ pc = "cero"
    /\ asiento' = CeroAsiento(asiento, classified_transaction, loc)
    /\ pc' = "iva"
    /\ UNCHANGED <<classified_transaction, extracted_details, loc, result>>
    /\ UNCHANGED <<clasificador, parse_call, carga, escucha>>

\* lines 131-136: the locals after the call of calculate_iva_details
IvaLocals(ct, l) ==
    LET r == calculate_iva_details(Some(l.base_imponible), ct.iva_type,
                                   l.cuota_iva_ext, ct.tipo_operacion)
    IN  [l EXCEPT !.calculated_iva = r.amount, !.iva_account = r.account,
                  !.iva_difference = r.difference]

\* lines 138-142: the entry after the check for "0%"
IvaAsiento(a, ct) ==
    IF /\ Contains(K_0pct, ct.iva_type)
       /\ ~a.needs_manual_review
       /\ ~(/\ Len(ct.special_treatment) > 0
            /\ Contains(K_exento, Lower(ct.special_treatment)))
    THEN [a EXCEPT !.needs_manual_review = TRUE, !.review_reason = <<R_IVA0>>]
    ELSE a

\* lines 131-142: VAT, and the review flag for "0%"
CalculateIva ==
    /\ pc = "iva"
    /\ loc' = IvaLocals(classified_transaction, loc)
    /\ asiento' = IvaAsiento(asiento, classified_transaction)
    /\ pc' = "irpf"
    /\ UNCHANGED <<classified_transaction, extracted_details, result>>
    /\ UNCHANGED <<clasificador, parse_call, carga, escucha>>

\* lines 146-150: the locals after the call of calculate_irpf_details
IrpfLocals(ct, l) ==
    LET r == calculate_irpf_details(Some(l.base_imponible), ct.special_treatment,
                                    l.retencion_irpf_ext)
    IN  [l EXCEPT !.calculated_irpf = r.amount, !.irpf_account = r.account,
                  !.irpf_difference = r.difference]

\* lines 146-150: withholding
CalculateIrpf ==
    /\ pc = "irpf"
    /\ loc' = IrpfLocals(classified_transaction, loc)
    /\ pc' = "total"
    /\ UNCHANGED <<classified_transaction, extracted_details, asiento, result>>
    /\ UNCHANGED <<clasificador, parse_call, carga, escucha>>

\* lines 176-180
total_haber_calculated(l) ==
    l.base_imponible + OrZero(l.calculated_iva)
    - (IF Truthy(l.calculated_irpf) /\ l.calculated_irpf[1] > 0
       THEN l.calculated_irpf[1] ELSE 0)

\* reason + " X" if reason else "X"
AppendReason(a, more, alone) ==
    [a EXCEPT !.needs_manual_review = TRUE,
              !.review_reason = IF @ # <<>> THEN Append(@, more) ELSE <<alone>>]

\* lines 183-187: the entry after the cross-check
TotalAsiento(a, l) ==
    IF Abs(total_haber_calculated(l) - l.total_factura_ext) > Tolerance
    THEN AppendReason(a, R_DiscrepanciaMas, R_DiscrepanciaSola)
    ELSE a

\* lines 183-187: cross-check against the extracted total
CheckTotal ==
    /\ pc = "total"
    /\ asiento' = TotalAsiento(asiento, loc)
    /\ pc' = "apuntes"
    /\ UNCHANGED <<classified_transaction, extracted_details, loc, result>>
    /\ UNCHANGED <<clasificador, parse_call, carga, escucha>>

\* iva_account.replace("472", "477") on the input-VAT accounts
Replace472(cuenta) ==
    CASE cuenta = "472.21" -> "477.21"
      [] cuenta = "472.10" -> "477.10"
      [] cuenta = "472.04" -> "477.04"
      [] OTHER             -> cuenta

\* irpf_account.replace("4751", "473") on the withholding accounts
Replace4751(cuenta) ==
    CASE cuenta = "4751.01" -> "473.01"
      [] cuenta = "4751.02" -> "473.02"
      [] OTHER              -> cuenta

\* lines 193-219: expense / purchase
ApuntesGastoCompra(a, ct, l) ==
    LET a1 == add_apunte(a, ct.account, l.base_imponible, 0)
        a2 == IF Truthy(l.calculated_iva) /\ l.calculated_iva[1] > 0
                 /\ l.iva_account # NoAccount
              THEN add_apunte(a1, l.iva_account, l.calculated_iva[1], 0)
              ELSE IF ct.iva_type = T_ISP /\ l.iva_account # NoAccount
                      /\ l.calculated_iva # None
              THEN add_apunte(add_apunte(a1, l.iva_account, l.calculated_iva[1], 0),
                              Replace472(l.iva_account), 0, l.calculated_iva[1])
              ELSE a1
        a3 == IF Truthy(l.calculated_irpf) /\ l.calculated_irpf[1] > 0
                 /\ l.irpf_account # NoAccount
              THEN add_apunte(a2, l.irpf_account, 0, l.calculated_irpf[1])
              ELSE a2
        monto_contrapartida ==
              l.base_imponible
              + (IF Truthy(l.calculated_iva) /\ ct.iva_type # T_ISP
                 THEN l.calculated_iva[1] ELSE 0)
              - OrZero(l.calculated_irpf)
    IN  add_apunte(a3, ct.contrapartida, 0, monto_contrapartida)

\* an income entry whose withholding is left out of the counter-account amount
ApuntesIngresoVenta_SinRestarRetencion(a, ct, l) ==
    LET a1 == add_apunte(a, ct.account, 0, l.base_imponible)
        a2 == IF Truthy(l.calculated_iva) /\ l.calculated_iva[1] > 0
                 /\ l.iva_account # NoAccount
              THEN add_apunte(a1, l.iva_account, 0, l.calculated_iva[1])
              ELSE a1
        a3 == IF Truthy(l.calculated_irpf) /\ l.calculated_irpf[1] > 0
                 /\ l.irpf_account # NoAccount
              THEN add_apunte(a2, Replace4751(l.irpf_account), l.calculated_irpf[1], 0)
              ELSE a2
        monto_contrapartida == l.base_imponible + OrZero(l.calculated_iva)
    IN  add_apunte(a3, ct.contrapartida, monto_contrapartida, 0)

\* lines 221-243: income / sale
ApuntesIngresoVenta(a, ct, l) ==
    LET a1 == add_apunte(a, ct.account, 0, l.base_imponible)
        a2 == IF Truthy(l.calculated_iva) /\ l.calculated_iva[1] > 0
                 /\ l.iva_account # NoAccount
              THEN add_apunte(a1, l.iva_account, 0, l.calculated_iva[1])
              ELSE a1
        a3 == IF Truthy(l.calculated_irpf) /\ l.calculated_irpf[1] > 0
                 /\ l.irpf_account # NoAccount
              THEN add_apunte(a2, Replace4751(l.irpf_account), l.calculated_irpf[1], 0)
              ELSE a2
        monto_contrapartida ==
              l.base_imponible + OrZero(l.calculated_iva) - OrZero(l.calculated_irpf)
    IN  add_apunte(a3, ct.contrapartida, monto_contrapartida, 0)

\* lines 245-251: any other operation type
ApuntesNoSoportado(a, ct, l) ==
    LET a0 == [a EXCEPT !.needs_manual_review = TRUE,
                        !.review_reason = <<R_TipoNoSoportado(ct.tipo_operacion)>>]
    IN  add_apunte(add_apunte(a0, "000REVIEW", l.base_imponible, 0),
                   "000REVIEW", 0, l.base_imponible)

BuildGastoCompra ==
    /\ pc = "apuntes"
    /\ IsGastoCompra(classified_transaction.tipo_operacion)
    /\ asiento' = ApuntesGastoCompra(asiento, classified_transaction, loc)
    /\ pc' = "cuadre"
    /\ UNCHANGED <<classified_transaction, extracted_details, loc, result>>
    /\ UNCHANGED <<clasificador, parse_call, carga, escucha>>

BuildIngresoVenta ==
    /\ pc = "apuntes"
    /\ ~IsGastoCompra(classified_transaction.tipo_operacion)
    /\ IsIngresoVenta(classified_transaction.tipo_operacion)
    /\ asiento' = ApuntesIngresoVenta(asiento, classified_transaction, loc)
    /\ pc' = "cuadre"
    /\ UNCHANGED <<classified_transaction, extracted_details, loc, result>>
    /\ UNCHANGED <<clasificador, parse_call, carga, escucha>>

BuildNoSoportado ==
    /\ pc = "apuntes"
    /\ ~IsGastoCompra(classified_transaction.tipo_operacion)
    /\ ~IsIngresoVenta(classified_transaction.tipo_operacion)
    /\ asiento' = ApuntesNoSoportado(asiento, classified_transaction, loc)
    /\ pc' = "cuadre"
    /\ UNCHANGED <<classified_transaction, extracted_details, loc, result>>
    /\ UNCHANGED <<clasificador, parse_call, carga, escucha>>

\* lines 254-259: the entry after the final balance check
CuadreAsiento(a) ==
    IF ~is_cuadrado(a)
    THEN AppendReason(a, R_DescuadradoMas, R_Descuadrado)
    ELSE a

\* lines 254-266: the final balance check, then the entry is returned
CheckCuadre ==
    /\ pc = "cuadre"
    /\ asiento' = CuadreAsiento(asiento)
    /\ result' = "asiento"
    /\ pc' = "done"
    /\ UNCHANGED <<classified_transaction, extracted_details, loc>>
    /\ UNCHANGED <<clasificador, parse_call, carga, escucha>>

\* lines 193-251: the lines for the operation type of the rule
Apuntes(a, ct, l) ==
    IF IsGastoCompra(ct.tipo_operacion) THEN ApuntesGastoCompra(a, ct, l)
    ELSE IF IsIngresoVenta(ct.tipo_operacion) THEN ApuntesIngresoVenta(a, ct, l)
    ELSE ApuntesNoSoportado(a, ct, l)

\* generate_asiento as one function of the transaction: what the call
\* returns, [result, asiento], the steps above applied in the order of the code
generate_asiento(ct) ==
    LET details == extract_invoice_details(ct.original_text)
    IN  IF ~is_valid_for_asiento(ct)
        THEN [result |-> "None", asiento |-> AsientoContable(<<>>)]
        ELSE IF details.fecha_factura = None
        THEN [result |-> "asiento", asiento |-> AsientoSinFecha]
        ELSE IF details.base_imponible = None \/ details.total_factura = None
        THEN [result |-> "raised", asiento |-> AsientoContable(details.fecha_factura[1])]
        ELSE LET l0 == ConvertedLocals(details)
                 a0 == AsientoContable(details.fecha_factura[1])
                 a1 == CeroAsiento(a0, ct, l0)
                 l1 == IvaLocals(ct, l0)
                 a2 == IvaAsiento(a1, ct)
                 l2 == IrpfLocals(ct, l1)
                 a3 == TotalAsiento(a2, l2)
                 a4 == Apuntes(a3, ct, l2)
             IN  [result |-> "asiento", asiento |-> CuadreAsiento(a4)]

Next ==
    \/ RejectInvalid
    \/ Extract
    \/ FechaNoEncontrada
    \/ ConvertAmounts
    \/ CheckCero
    \/ CalculateIva
    \/ CalculateIrpf
    \/ CheckTotal
    \/ BuildGastoCompra
    \/ BuildIngresoVenta
    \/ BuildNoSoportado
    \/ CheckCuadre

Spec == Init /\ [][Next]_vars

-----------------------------------------------------------------------------
(* reglas_clasificacion: classify_text_content over load_rules and         *)
(* match_rule, and the rules sheet changing on disk                        *)

\* number of versions of the rules sheet
MaxMtime == 2

\* no generate_asiento call is running
GeneradorEnReposo ==
    /\ pc = "idle"
    /\ classified_transaction = NoDetails
    /\ extracted_details = NoDetails
    /\ loc = NoLocals
    /\ asiento = AsientoContable(<<>>)
    /\ result = "pending"

InitClasificador ==
    /\ GeneradorEnReposo
    /\ parse_call = ParserEnReposo
    /\ CargaEnReposo
    /\ EscuchaEnReposo
    /\ \/ rules_file = [exists |-> FALSE, rows |-> <<>>, mtime |-> 0]
       \/ \E t \in RuleTables : rules_file = [exists |-> TRUE, rows |-> t, mtime |-> 1]
    /\ \E k \in BOOLEAN, r \in TieRanks(LongestTable) :
          build = [strftime_pads_year |-> TRUE, astype_keeps_na |-> k, tie_rank |-> r]
    /\ CACHED_RULES = None
    /\ RULES_FILE_LAST_MODIFIED = None
    /\ llamada = LlamadaEnReposo

\* the sheet is written again: new rows, later modification time
WriteRulesFile ==
    /\ rules_file.mtime < MaxMtime
    /\ \E t \in RuleTables :
          rules_file' = [exists |-> TRUE, rows |-> t, mtime |-> rules_file.mtime + 1]
    /\ UNCHANGED <<build, CACHED_RULES, RULES_FILE_LAST_MODIFIED, llamada, generador, parse_call, carga, escucha>>

\* the sheet is removed
RemoveRulesFile ==
    /\ rules_file.exists
    /\ rules_file' = [rules_file EXCEPT !.exists = FALSE]
    /\ UNCHANGED <<build, CACHED_RULES, RULES_FILE_LAST_MODIFIED, llamada, generador, parse_call, carga, escucha>>

\* main.py 56-71: classify_text_content is called; an empty text returns
\* None at once
ClassifyTextContent ==
    /\ llamada.pc \in {"idle", "returned"}
    /\ \E text \in TextContents, force \in BOOLEAN :
          llamada' = IF text = <<>>
                     THEN [LlamadaEnReposo EXCEPT !.pc = "returned"]
                     ELSE [LlamadaEnReposo EXCEPT !.pc = "load_rules",
                                                  !.text_content = text,
                                                  !.force_reload = force]
    /\ UNCHANGED <<rules_file, build, CACHED_RULES, RULES_FILE_LAST_MODIFIED, generador, parse_call, carga, escucha>>

\* utils.py 164-179: the path is resolved, the modification time is read
\* and the cached DataFrame is returned when it is current
LoadRules_Cache ==
    /\ llamada.pc = "load_rules"
    /\ IF ~rules_file.exists
       THEN /\ CACHED_RULES' = None
            /\ llamada' = [llamada EXCEPT !.pc = "returned", !.ret = None]
       ELSE /\ CACHED_RULES' = CACHED_RULES
            /\ llamada' =
                  IF /\ RULES_FILE_LAST_MODIFIED = Some(rules_file.mtime)
                     /\ CACHED_RULES # None
                     /\ ~llamada.force_reload
                  THEN [llamada EXCEPT !.pc = "match_rule",
                                       !.modified_time = Some(rules_file.mtime),
                                       !.rules_df = CACHED_RULES]
                  ELSE [llamada EXCEPT !.pc = "read_excel",
                                       !.modified_time = Some(rules_file.mtime)]
    /\ UNCHANGED <<rules_file, build, RULES_FILE_LAST_MODIFIED, generador, parse_call, carga, escucha>>

\* utils.py 185-221: the sheet is read, its columns converted, its rows
\* sorted by Priority; a sheet that is gone raises FileNotFoundError
\* (lines 241-244)
LoadRules_Read ==
    /\ llamada.pc = "read_excel"
    /\ IF ~rules_file.exists
       THEN /\ CACHED_RULES' = None
            /\ llamada' = [llamada EXCEPT !.pc = "returned", !.ret = None]
       ELSE /\ CACHED_RULES' = CACHED_RULES
            /\ llamada' =
                  [llamada EXCEPT
                     !.pc = "store",
                     !.sheet = Some(rules_file.rows),
                     !.rules_df = Some(sort_values(ConvertColumns(rules_file.rows,
                                                                  build.astype_keeps_na),
                                                   build.tie_rank))]
    /\ UNCHANGED <<rules_file, build, RULES_FILE_LAST_MODIFIED, generador, parse_call, carga, escucha>>

\* utils.py 235-239: the DataFrame and its modification time are recorded
LoadRules_Store ==
    /\ llamada.pc = "store"
    /\ CACHED_RULES' = llamada.rules_df
    /\ RULES_FILE_LAST_MODIFIED' = llamada.modified_time
    /\ llamada' = [llamada EXCEPT !.pc = "match_rule"]
    /\ UNCHANGED <<rules_file, build, generador, parse_call, carga, escucha>>

\* main.py 75-101: no rules or no match returns None, a match returns the
\* ClassifiedTransaction of the matched rule
MatchRule ==
    /\ llamada.pc = "match_rule"
    /\ llamada' =
          [llamada EXCEPT !.pc = "returned",
                          !.ret = IF Len(llamada.rules_df[1]) = 0 THEN None
                                  ELSE match_rule(llamada.text_content, llamada.rules_df)]
    /\ UNCHANGED <<rules_file, build, CACHED_RULES, RULES_FILE_LAST_MODIFIED, generador, parse_call, carga, escucha>>

NextClasificador ==
    \/ WriteRulesFile
    \/ RemoveRulesFile
    \/ ClassifyTextContent
    \/ LoadRules_Cache
    \/ LoadRules_Read
    \/ LoadRules_Store
    \/ MatchRule

SpecClasificador == InitClasificador /\ [][NextClasificador]_vars

-----------------------------------------------------------------------------
(* reglas_clasificacion: classify_text_content called by two threads.      *)
(* A DataFrame is an object of the heap, and CACHED_RULES, the rules_df of *)
(* load_rules and the rules_df of classify_text_content (snapshot) are     *)
(* references to it.  Each frame carries the path it was read from.  The   *)
(* files exist and are well formed (the failure returns of load_rules are  *)
(* in the specification above).  The steps of a thread that touch only     *)
(* its own objects are one action; each read or write of a global is an    *)
(* action of its own.                                                      *)

CargaTables == { <<Row_Luz>>, <<Row_Alquiler, Row_Luz>> }

\* the text each thread classifies
CargaTexts == << <<"l","u","z">>, <<"a","l","q","u","i","l","e","r">> >>

InitCarga ==
    /\ GeneradorEnReposo
    /\ ClasificadorEnReposo
    /\ parse_call = ParserEnReposo
    /\ \E tl \in CargaTables, td \in CargaTables :
          archivos = [p \in Paths |->
                        [rows |-> IF p = "local" THEN tl ELSE td, mtime |-> 1]]
    /\ configured_path = "local"
    /\ RULES_FILE_PATH = None
    /\ heap = <<>>
    /\ hilos = [t \in Threads |-> HiloEnReposo]
    /\ EscuchaEnReposo

\* the local file is written again: new rows, later modification time (the
\* copy downloaded from Drive is written once, utils.py 107)
WriteArchivo ==
    /\ archivos["local"].mtime < MaxMtime
    /\ \E t \in CargaTables :
          archivos' = [archivos EXCEPT !["local"] = [rows |-> t, mtime |-> @.mtime + 1]]
    /\ UNCHANGED <<configured_path, RULES_FILE_PATH, heap, hilos>>
    /\ UNCHANGED <<generador, clasificador, parse_call, escucha>>

\* utils.py 71-122: LOCAL_RULES_FILE_PATH stops naming the file, and the
\* path resolves to the copy downloaded from Drive
SwitchPath ==
    /\ configured_path = "local"
    /\ configured_path' = "drive"
    /\ UNCHANGED <<archivos, RULES_FILE_PATH, heap, hilos>>
    /\ UNCHANGED <<generador, clasificador, parse_call, escucha>>

\* main.py 56-75: thread t calls classify_text_content
Call(t) ==
    /\ hilos[t].pc = "idle"
    /\ \E force \in BOOLEAN :
          hilos' = [hilos EXCEPT ![t] = [@ EXCEPT !.pc = "get_rules_file_path",
                                                  !.text_content = CargaTexts[t],
                                                  !.force_reload = force]]
    /\ UNCHANGED <<archivos, configured_path, RULES_FILE_PATH, heap>>
    /\ UNCHANGED <<generador, clasificador, parse_call, escucha>>

\* utils.py 165 and 66-144: get_rules_file_path assigns the global
\* RULES_FILE_PATH and returns it
GetRulesFilePath(t) ==
    /\ hilos[t].pc = "get_rules_file_path"
    /\ RULES_FILE_PATH' = Some(configured_path)
    /\ hilos' = [hilos EXCEPT ![t] = [@ EXCEPT !.pc = "getmtime",
                                              !.current_rules_file_path = configured_path]]
    /\ UNCHANGED <<archivos, configured_path, heap>>
    /\ UNCHANGED <<generador, clasificador, parse_call, escucha>>

\* utils.py 175
GetMtime(t) ==
    /\ hilos[t].pc = "getmtime"
    /\ hilos' = [hilos EXCEPT ![t] =
                    [@ EXCEPT !.pc = "check",
                              !.modified_time =
                                  archivos[hilos[t].current_rules_file_path].mtime]]
    /\ UNCHANGED <<archivos, configured_path, RULES_FILE_PATH, heap>>
    /\ UNCHANGED <<generador, clasificador, parse_call, escucha>>

\* the condition of utils.py 176-177
CacheIsFresh(t) ==
    /\ RULES_FILE_LAST_MODIFIED # None
    /\ hilos[t].modified_time = RULES_FILE_LAST_MODIFIED[1]
    /\ CACHED_RULES # None
    /\ ~hilos[t].force_reload
    /\ Some(hilos[t].current_rules_file_path) = RULES_FILE_PATH

\* utils.py 176-181
CheckCache(t) ==
    /\ hilos[t].pc = "check"
    /\ hilos' = [hilos EXCEPT ![t].pc =
                    IF CacheIsFresh(t) THEN "return_cached" ELSE "read_excel"]
    /\ UNCHANGED <<archivos, configured_path, RULES_FILE_PATH, heap>>
    /\ UNCHANGED <<generador, clasificador, parse_call, escucha>>

\* utils.py 179 and 239: return CACHED_RULES, the global as it is now
ReturnCachedRules(t) ==
    /\ hilos[t].pc \in {"return_cached", "return_loaded"}
    /\ hilos' = [hilos EXCEPT ![t] = [@ EXCEPT !.pc = "match_rule",
                                              !.snapshot = CACHED_RULES]]
    /\ UNCHANGED <<archivos, configured_path, RULES_FILE_PATH, heap>>
    /\ UNCHANGED <<generador, clasificador, parse_call, escucha>>

\* ReadExcel writing the new rows into the cached frame, when there is one,
\* instead of allocating a frame
ReadExcel_EnSitio(t) ==
    /\ hilos[t].pc = "read_excel"
    /\ LET path      == hilos[t].current_rules_file_path
           converted == ConvertColumns(archivos[path].rows, build.astype_keeps_na)
           frame     == [rows   |-> sort_values(converted, build.tie_rank),
                         source |-> path]
       IN  IF CACHED_RULES = None
           THEN /\ heap' = Append(heap, frame)
                /\ hilos' = [hilos EXCEPT ![t] = [@ EXCEPT !.pc = "store_cached",
                                                          !.rules_df = Some(Len(heap) + 1)]]
           ELSE /\ heap' = [heap EXCEPT ![CACHED_RULES[1]] = frame]
                /\ hilos' = [hilos EXCEPT ![t] = [@ EXCEPT !.pc = "store_cached",
                                                          !.rules_df = CACHED_RULES]]
    /\ UNCHANGED <<archivos, configured_path, RULES_FILE_PATH>>
    /\ UNCHANGED <<generador, clasificador, parse_call, escucha>>

\* utils.py 185-219: read_excel allocates a frame, the conversions assign
\* its columns in place, and sort_values allocates the sorted frame, the
\* only one referenced from then on
ReadExcel(t) ==
    /\ hilos[t].pc = "read_excel"
    /\ LET path      == hilos[t].current_rules_file_path
           converted == ConvertColumns(archivos[path].rows, build.astype_keeps_na)
       IN  heap' = Append(heap, [rows   |-> sort_values(converted, build.tie_rank),
                                 source |-> path])
    /\ hilos' = [hilos EXCEPT ![t] = [@ EXCEPT !.pc = "store_cached",
                                              !.rules_df = Some(Len(heap) + 1)]]
    /\ UNCHANGED <<archivos, configured_path, RULES_FILE_PATH>>
    /\ UNCHANGED <<generador, clasificador, parse_call, escucha>>

\* utils.py 235
StoreCachedRules(t) ==
    /\ hilos[t].pc = "store_cached"
    /\ CACHED_RULES' = hilos[t].rules_df
    /\ hilos' = [hilos EXCEPT ![t].pc = "store_path"]
    /\ UNCHANGED <<archivos, configured_path, RULES_FILE_PATH, heap>>
    /\ UNCHANGED <<rules_file, build, RULES_FILE_LAST_MODIFIED, llamada>>
    /\ UNCHANGED <<generador, parse_call, escucha>>

\* utils.py 236
StorePath(t) ==
    /\ hilos[t].pc = "store_path"
    /\ RULES_FILE_PATH' = Some(hilos[t].current_rules_file_path)
    /\ hilos' = [hilos EXCEPT ![t].pc = "store_mtime"]
    /\ UNCHANGED <<archivos, configured_path, heap>>
    /\ UNCHANGED <<generador, clasificador, parse_call, escucha>>

\* utils.py 237
StoreLastModified(t) ==
    /\ hilos[t].pc = "store_mtime"
    /\ RULES_FILE_LAST_MODIFIED' = Some(hilos[t].modified_time)
    /\ hilos' = [hilos EXCEPT ![t].pc = "return_loaded"]
    /\ UNCHANGED <<archivos, configured_path, RULES_FILE_PATH, heap>>
    /\ UNCHANGED <<rules_file, build, CACHED_RULES, llamada>>
    /\ UNCHANGED <<generador, parse_call, escucha>>

\* main.py 76-101: match_rule on the DataFrame load_rules returned
MatchRuleHilo(t) ==
    /\ hilos[t].pc = "match_rule"
    /\ hilos' = [hilos EXCEPT ![t] =
                    [@ EXCEPT !.pc = "returned",
                              !.ret =
                                  IF hilos[t].snapshot = None THEN None
                                  ELSE IF Len(heap[hilos[t].snapshot[1]].rows) = 0
                                       THEN None
                                  ELSE match_rule(hilos[t].text_content,
                                           Some(heap[hilos[t].snapshot[1]].rows))]]
    /\ UNCHANGED <<archivos, configured_path, RULES_FILE_PATH, heap>>
    /\ UNCHANGED <<generador, clasificador, parse_call, escucha>>

NextCarga ==
    \/ WriteArchivo
    \/ SwitchPath
    \/ \E t \in Threads :
          \/ Call(t)
          \/ GetRulesFilePath(t)
          \/ GetMtime(t)
          \/ CheckCache(t)
          \/ ReturnCachedRules(t)
          \/ ReadExcel(t)
          \/ StoreCachedRules(t)
          \/ StorePath(t)
          \/ StoreLastModified(t)
          \/ MatchRuleHilo(t)

SpecCarga == InitCarga /\ [][NextCarga]_vars

-----------------------------------------------------------------------------
(* parse_date, parse_amount and format_concepto called on their own, as    *)
(* the __main__ blocks of their modules do                                 *)

\* the fields of the date strings: one or two digits for a day or a month,
\* four for a year; valid ones, the ends of the months and of the years,
\* and values no calendar has; the separators; strings that are no date in
\* any order
DateFields ==
    [day   |-> { <<"1">>, <<"0","1">>, <<"2","5">>, <<"2","9">>, <<"3","1">>,
                 <<"0","0">>, <<"9","9">> },
     month |-> { <<"2">>, <<"0","4">>, <<"1","0">>, <<"1","2">>, <<"1","3">>,
                 <<"9","9">> },
     year  |-> { <<"2","0","2","3">>, <<"2","0","2","4">>, <<"1","9","0","0">>,
                 <<"0","9","9","9">>, <<"9","9","9","9">> },
     sep   |-> {"-", "/", "."},
     other |-> { <<"a","b","c">>, <<"2","5","/","1","0">>,
                 <<"2","5","/","/","1","0">>, <<"2","0","2","3">>,
                 <<"-","-">>, <<" ">>, <<>> }]

\* three fields written with one separator
DateString(a, b, c, sep) == a \o <<sep>> \o b \o <<sep>> \o c

DateStrings ==
    {DateString(d, m, y, sep) : d \in DateFields.day, m \in DateFields.month,
                                y \in DateFields.year, sep \in DateFields.sep}
    \cup {DateString(y, m, d, sep) : d \in DateFields.day, m \in DateFields.month,
                                     y \in DateFields.year, sep \in DateFields.sep}
    \cup DateFields.other

\* the parts of the amounts written with both separators: the sign, the
\* groups of the integer part, the decimals, the currency; the digits before
\* and after the separator of the amounts written with one; and strings that
\* are no amount
AmountFields ==
    [sign     |-> { <<>>, <<"-">>, <<"+">> },
     groups   |-> { <<<<"1">>, <<"2","3","4">>>>, <<<<"1","2">>, <<"0","0","0">>>>,
                    <<<<"9","9","9">>, <<"9","9","9">>>>,
                    <<<<"1">>, <<"2","3","4">>, <<"5","6","7">>>> },
     decimals |-> { <<"5","6">>, <<"5">>, <<"0","0">>, <<"0","8","9">>, <<>> },
     affix    |-> { <<>>, <<" ","€">> },
     int      |-> { <<"1">>, <<"1","2">>, <<"1","2","3","4">> },
     frac     |-> { <<"5">>, <<"5","0">>, <<"5","6">>, <<"5","0","0">>,
                    <<"5","0","0","0">> },
     other    |-> { <<"1","2","3","4",",","5","6">>, <<"1","2","3","4",".","5","6">>,
                    <<"1",".","5","0","0">>, <<"1",",","5","0","0">>,
                    <<"1","5","0","0">>, <<"1",",","2","3",".","4",",","5">>,
                    <<"a","b","c">>, <<>> }]

RECURSIVE JoinGroups(_, _)
JoinGroups(groups, sep) ==
    IF Len(groups) = 1 THEN groups[1]
    ELSE groups[1] \o <<sep>> \o JoinGroups(Tail(groups), sep)

\* sign, groups joined by the thousands separator, the other separator,
\* decimals, currency
AmountString(sign, groups, thousands, decimals, affix) ==
    sign \o JoinGroups(groups, thousands)
         \o <<IF thousands = "." THEN "," ELSE ".">> \o decimals \o affix

AmountStrings ==
    {AmountString(sg, g, t, dec, af) :
        sg \in AmountFields.sign, g \in AmountFields.groups, t \in {".", ","},
        dec \in AmountFields.decimals, af \in AmountFields.affix}
    \cup {i \o <<sep>> \o f :
        i \in AmountFields.int, sep \in {".", ","}, f \in AmountFields.frac}
    \cup AmountFields.other

\* the templates and the extracted details format_concepto is applied to:
\* no template, the two templates of the __main__ block, a template of one
\* field and a long one; no details, the details of the __main__ block, the
\* details of a text in which nothing was found, details with no date
ConceptoFields ==
    [patron |->
        { <<>>,
          << Lit(<<"O","p","e","r","a","c","i","o","n"," ","c","o","n"," ">>), Ph("campo_inexistente") >>,
          << Lit(<<"F","/">>), Ph("proveedor_nombre_short"), Lit(<<" ","N",".">>),
             Ph("numero_factura"), Lit(<<" ","F",".">>), Ph("fecha_factura_short"),
             Lit(<<" ","T","o","t","a","l",":">>), Ph("total_factura") >>,
          << Ph("numero_factura") >>,
          << Lit(<<"P","a","g","o"," ","d","e"," ","l","a"," ","f","a","c","t","u","r","a"," ">>), Ph("numero_factura"),
             Lit(<<" ","d","e","l"," ","c","l","i","e","n","t","e"," ">>), Ph("cliente_nombre") >> },
     info |->
        { <<>>,
          [proveedor_nombre |-> Some(<<"P","r","o","v","e","e","d","o","r"," ","M","u","y"," ","L","a","r","g","o"," ","S",".","L","."," ","U","n","i","p","e","r","s","o","n","a","l">>),
           numero_factura   |-> Some(<<"F","2","0","2","3","/","X","Y","Z","/","1","2","3","4","5">>),
           fecha_factura    |-> Some(<<"2","0","2","3","-","1","0","-","2","6">>),
           total_factura    |-> Some(<<"1","2","1",".","0","0">>)],
          [proveedor_nombre |-> None, cliente_nombre |-> None,
           numero_factura   |-> None, fecha_factura |-> None,
           total_factura    |-> None],
          [cliente_nombre   |-> Some(<<"A","C","M","E">>),
           numero_factura   |-> Some(<<"A","-","1">>),
           fecha_factura    |-> None],
          [numero_factura   |-> Some(<<"A","-","1">>),
           fecha_factura    |-> Some(<<"2","6","/","1","0","/","2","0","2","3">>)] }]

InitParser ==
    /\ GeneradorEnReposo
    /\ rules_file = [exists |-> FALSE, rows |-> <<>>, mtime |-> 0]
    /\ \E p \in BOOLEAN :
          build = [strftime_pads_year |-> p, astype_keeps_na |-> TRUE,
                   tie_rank |-> [i \in 1..LongestTable |-> i]]
    /\ CACHED_RULES = None
    /\ RULES_FILE_LAST_MODIFIED = None
    /\ llamada = LlamadaEnReposo
    /\ CargaEnReposo
    /\ EscuchaEnReposo
    /\ \/ \E s \in DateStrings :
             parse_call = [fn |-> "parse_date", pc |-> "called", arg |-> s, ret |-> None]
       \/ \E s \in AmountStrings :
             parse_call = [fn |-> "parse_amount", pc |-> "called", arg |-> s, ret |-> None]
       \/ \E p \in ConceptoFields.patron, i \in ConceptoFields.info :
             parse_call = [fn |-> "format_concepto", pc |-> "called",
                           arg |-> [concepto_patron |-> p, extracted_info |-> i],
                           ret |-> None]

\* information_extractor.py 46-83
ParseDate ==
    /\ parse_call.fn = "parse_date" /\ parse_call.pc = "called"
    /\ parse_call' = [parse_call EXCEPT !.pc = "returned", !.ret = parse_date(parse_call.arg)]
    /\ UNCHANGED <<generador, clasificador, carga, escucha>>

\* information_extractor.py 86-144
ParseAmount ==
    /\ parse_call.fn = "parse_amount" /\ parse_call.pc = "called"
    /\ parse_call' = [parse_call EXCEPT !.pc = "returned", !.ret = parse_amount(parse_call.arg)]
    /\ UNCHANGED <<generador, clasificador, carga, escucha>>

\* asiento_utils.py 203-266
FormatConcepto ==
    /\ parse_call.fn = "format_concepto" /\ parse_call.pc = "called"
    /\ parse_call' =
          [parse_call EXCEPT !.pc = "returned",
               !.ret = format_concepto(parse_call.arg.concepto_patron,
                                       parse_call.arg.extracted_info)]
    /\ UNCHANGED <<generador, clasificador, carga, escucha>>

NextParser ==
    \/ ParseDate
    \/ ParseAmount
    \/ FormatConcepto

SpecParser == InitParser /\ [][NextParser]_vars

-----------------------------------------------------------------------------
(* drive_listener/listener.py: the polling loop run_listener over          *)
(* check_for_new_documents, is_file_already_processed and                  *)
(* mark_file_as_processed.  A modification time is an integer; a datetime  *)
(* is the instant and whether it carries a tzinfo.  The columns name,      *)
(* mime_type and processed_at of the table are not modelled.  What the     *)
(* OCR, the classifier, generate_asiento and the sheet writer return for a *)
(* document is an input of the step that calls them.  Line 294 is read as  *)
(* the test  not status.startswith("error")  its comment describes.        *)

\* config/settings.py
ALLOWED_MIMETYPES ==
    {"application/pdf", "image/jpeg", "image/png",
     "application/vnd.openxmlformats-officedocument.spreadsheetml.sheet",
     "application/vnd.ms-excel"}

\* the types of the files put in the folder
MimeTypes == {"application/pdf", "text/plain"}

\* datetime.fromisoformat(s.replace('Z', '+00:00'))
fromisoformat(t) == [t |-> t, aware |-> TRUE]

\* a DateTime column read by a new session
LoadDateTime(t) == [t |-> t, aware |-> engine.keeps_tzinfo]

\* str.startswith("error") over the statuses the listener writes
startswith_error(status) ==
    status \in {"error", "error_ocr", "error_ocr_unexpected_none",
                "error_asiento_generation_failed", "error_sheet_write",
                "error_listener"}

\* the return value, the exception raised if any, and the table afterwards
is_file_already_processed(db_session, file_id, file_modified_time_str) ==
    LET file_modified_time_drive == fromisoformat(file_modified_time_str)
        processed_file == db_session[file_id]
    IN  IF processed_file # None
        THEN LET row == processed_file[1]
                 last_modified_drive == LoadDateTime(row.last_modified_drive)
             IN  IF file_modified_time_drive.aware # last_modified_drive.aware
                 THEN [raised |-> "TypeError", ret |-> FALSE, db |-> db_session]
                 ELSE IF file_modified_time_drive.t > last_modified_drive.t
                 THEN [raised |-> "", ret |-> FALSE,
                       db |-> [db_session EXCEPT ![file_id] =
                                 Some([row EXCEPT
                                         !.status = "pending_reprocessing",
                                         !.last_modified_drive =
                                              file_modified_time_drive.t])]]
                 ELSE [raised |-> "",
                       ret |-> row.status \notin {"error", "pending_reprocessing"},
                       db |-> db_session]
        ELSE [raised |-> "", ret |-> FALSE, db |-> db_session]

\* the table after the call
mark_file_as_processed(db_session, file_id, modified_time_str, status, error_msg) ==
    [db_session EXCEPT ![file_id] =
        Some([status |-> status,
              last_modified_drive |-> fromisoformat(modified_time_str).t,
              error_message |-> error_msg])]

\* list_files_in_folder: the items of the folder, newest first
RECURSIVE NewestFirst(_)
NewestFirst(ids) ==
    IF ids = {} THEN <<>>
    ELSE LET f == CHOOSE g \in ids :
                     \A h \in ids : drive_files[h][1].createdTime <= drive_files[g][1].createdTime
         IN  <<drive_files[f][1]>> \o NewestFirst(ids \ {f})

list_files_in_folder == NewestFirst({f \in FileIds : drive_files[f] # None})

\* the loop of check_for_new_documents from item i on
RECURSIVE ScanItems(_, _, _, _)
ScanItems(items, i, db_session, new_files_to_process) ==
    IF i > Len(items)
    THEN [raised |-> "", new_files |-> new_files_to_process, db |-> db_session]
    ELSE IF items[i].mimeType \notin ALLOWED_MIMETYPES
    THEN ScanItems(items, i + 1, db_session, new_files_to_process)
    ELSE LET r == is_file_already_processed(db_session, items[i].id,
                                            items[i].modifiedTime)
         IN  IF r.raised # ""
             THEN [raised |-> r.raised, new_files |-> <<>>, db |-> r.db]
             ELSE ScanItems(items, i + 1, r.db,
                            IF r.ret THEN new_files_to_process
                            ELSE Append(new_files_to_process, items[i]))

check_for_new_documents(items) == ScanItems(items, 1, processed_files, <<>>)

InitEscucha ==
    /\ GeneradorEnReposo
    /\ ClasificadorEnReposo
    /\ parse_call = ParserEnReposo
    /\ CargaEnReposo
    /\ drive_files = [f \in FileIds |-> None]
    /\ processed_files = [f \in FileIds |-> None]
    /\ \E k \in BOOLEAN : engine = [keeps_tzinfo |-> k]
    /\ sheet_rows = <<>>
    /\ bucle = BucleEnReposo

\* a file is put in the folder
Upload(f) ==
    /\ drive_files[f] = None
    /\ \E mt \in MimeTypes :
          drive_files' = [drive_files EXCEPT ![f] =
              Some([id |-> f, mimeType |-> mt, modifiedTime |-> 1,
                    createdTime |-> Cardinality({g \in FileIds : drive_files[g] # None}) + 1])]
    /\ UNCHANGED <<processed_files, engine, sheet_rows, bucle>>
    /\ UNCHANGED <<generador, clasificador, parse_call, carga>>

\* a file of the folder is modified
ModifyFile(f) ==
    /\ drive_files[f] # None
    /\ drive_files[f][1].modifiedTime < MaxMtime
    /\ drive_files' = [drive_files EXCEPT ![f] =
          Some([@[1] EXCEPT !.modifiedTime = @ + 1])]
    /\ UNCHANGED <<processed_files, engine, sheet_rows, bucle>>
    /\ UNCHANGED <<generador, clasificador, parse_call, carga>>

\* run_listener 174: one poll; listed is false when the folder cannot be
\* listed (check_for_new_documents 103-130)
CheckForNewDocuments ==
    /\ bucle.pc = "sleep"
    /\ \E listed \in BOOLEAN :
          LET items == IF listed THEN list_files_in_folder ELSE <<>>
              r     == check_for_new_documents(items)
          IN  /\ processed_files' = r.db
              /\ bucle' = [bucle EXCEPT !.pc = "loop", !.items = items,
                                        !.new_files = r.new_files,
                                        !.exc = r.raised]
    /\ UNCHANGED <<drive_files, engine, sheet_rows>>
    /\ UNCHANGED <<generador, clasificador, parse_call, carga>>

\* run_listener 299-306: nothing left to process in this cycle
Sleep ==
    /\ bucle.pc = "loop"
    /\ bucle.new_files = <<>>
    /\ bucle' = BucleEnReposo
    /\ UNCHANGED <<drive_files, processed_files, engine, sheet_rows>>
    /\ UNCHANGED <<generador, clasificador, parse_call, carga>>

\* the status of the file in hand, and the loop gone on to the next file
EndFile(status, error_msg) ==
    /\ processed_files' =
          mark_file_as_processed(processed_files, bucle.file_data[1].id,
                                 bucle.file_data[1].modifiedTime, status, error_msg)
    /\ bucle' = [bucle EXCEPT !.pc = "loop", !.file_data = None,
                              !.asiento_contable = None]

\* the status of the file in hand, and the loop at its next call
Advance(status, error_msg, next_pc) ==
    /\ processed_files' =
          mark_file_as_processed(processed_files, bucle.file_data[1].id,
                                 bucle.file_data[1].modifiedTime, status, error_msg)
    /\ bucle' = [bucle EXCEPT !.pc = next_pc]

\* run_listener 177-182
BeginFile ==
    /\ bucle.pc = "loop"
    /\ bucle.new_files # <<>>
    /\ LET file_data == Head(bucle.new_files)
       IN  /\ processed_files' =
                 mark_file_as_processed(processed_files, file_data.id,
                                        file_data.modifiedTime, "ocr_initiated", None)
           /\ bucle' = [bucle EXCEPT !.pc = "ocr", !.file_data = Some(file_data),
                                     !.new_files = Tail(@)]
    /\ UNCHANGED <<drive_files, engine, sheet_rows>>
    /\ UNCHANGED <<generador, clasificador, parse_call, carga>>

\* run_listener 187-201 and 276-289: process_document_from_drive raises,
\* returns None or returns a text, the empty one included
Ocr ==
    /\ bucle.pc = "ocr"
    /\ \E extracted_text_content \in {"raise", "None", "", "text"} :
          CASE extracted_text_content = "raise" ->
                  EndFile("error_ocr", Some("ocr_exc"))
            [] extracted_text_content = "None" ->
                  EndFile("error_ocr_unexpected_none", None)
            [] OTHER ->
                  Advance("ocr_completed", None, "classify")
    /\ UNCHANGED <<drive_files, engine, sheet_rows>>
    /\ UNCHANGED <<generador, clasificador, parse_call, carga>>

\* run_listener 291-295: an exception leaves the inner handler
OuterException ==
    /\ bucle.pc = "ocr"
    /\ ~ startswith_error(processed_files[bucle.file_data[1].id][1].status)
    /\ EndFile("error_listener", Some("e"))
    /\ UNCHANGED <<drive_files, engine, sheet_rows>>
    /\ UNCHANGED <<generador, clasificador, parse_call, carga>>

\* run_listener 205-213 and 272-274
Classify ==
    /\ bucle.pc = "classify"
    /\ \E classified \in BOOLEAN :
          IF classified
          THEN Advance("classification_completed", None, "asiento")
          ELSE EndFile("needs_manual_review_classification", None)
    /\ UNCHANGED <<drive_files, engine, sheet_rows>>
    /\ UNCHANGED <<generador, clasificador, parse_call, carga>>

\* run_listener 217-229 and 262-271: generate_asiento returns None or an
\* entry; the branch of line 262 repeats the test of line 223 and is never
\* taken
GenerateAsiento ==
    /\ bucle.pc = "asiento"
    /\ \E asiento_contable \in {None} \cup {Some([needs_manual_review |-> b]) : b \in BOOLEAN} :
          IF asiento_contable # None
          THEN /\ processed_files' =
                     mark_file_as_processed(processed_files, bucle.file_data[1].id,
                          bucle.file_data[1].modifiedTime,
                          IF asiento_contable[1].needs_manual_review
                          THEN "needs_manual_review_asiento" ELSE "asiento_generated",
                          IF asiento_contable[1].needs_manual_review
                          THEN Some("review_reason") ELSE None)
               /\ bucle' = [bucle EXCEPT !.pc = "sheet",
                                         !.asiento_contable = asiento_contable]
          ELSE EndFile("error_asiento_generation_failed",
                       Some("generate_asiento returned None"))
    /\ UNCHANGED <<drive_files, engine, sheet_rows>>
    /\ UNCHANGED <<generador, clasificador, parse_call, carga>>

\* run_listener 231-260
WriteAsientoToSheet ==
    /\ bucle.pc = "sheet"
    /\ \E sheet_write_success \in BOOLEAN :
          IF sheet_write_success
          THEN /\ sheet_rows' = Append(sheet_rows,
                      [file |-> bucle.file_data[1].id,
                       needs_manual_review |->
                           bucle.asiento_contable[1].needs_manual_review])
               /\ EndFile("completed_sheet_written", None)
          ELSE /\ sheet_rows' = sheet_rows
               /\ EndFile("error_sheet_write", Some("Failed to write to Google Sheets"))
    /\ UNCHANGED <<drive_files, engine>>
    /\ UNCHANGED <<generador, clasificador, parse_call, carga>>

NextEscucha ==
    \/ \E f \in FileIds : Upload(f)
    \/ \E f \in FileIds : ModifyFile(f)
    \/ CheckForNewDocuments
    \/ Sleep
    \/ BeginFile
    \/ Ocr
    \/ OuterException
    \/ Classify
    \/ GenerateAsiento
    \/ WriteAsientoToSheet

SpecEscucha == InitEscucha /\ [][NextEscucha]_vars

-----------------------------------------------------------------------------
(* Properties                                                              *)

\* the call took the normal path and returned an entry built from the lines
Returned == pc = "done" /\ result = "asiento"

FechaFound == extracted_details.fecha_factura # None

\* calculate_iva_details has returned to generate_asiento
IvaCalculated ==
    pc \in {"irpf", "total", "apuntes", "cuadre"} \/ (Returned /\ FechaFound)

\* calculate_irpf_details has returned to generate_asiento
IrpfCalculated ==
    pc \in {"total", "apuntes", "cuadre"} \/ (Returned /\ FechaFound)

HasReason(r) == \E i \in 1..Len(asiento.review_reason) : asiento.review_reason[i] = r

ApuntesOn(cuentas) ==
    {i \in 1..Len(asiento.apuntes) : asiento.apuntes[i].cuenta \in cuentas}

CuentasSoportado == {"472.21", "472.10", "472.04"}

CuentasRepercutido == {"477.21", "477.10", "477.04"}

\* a is num/den rounded to the nearest integer, a tie going away from zero
IsHalfUp(a, num, den) ==
    /\ 2 * Abs(num - a * den) <= den
    /\ 2 * Abs(num - a * den) = den => Abs(a) * den > Abs(num)

\* C1: an entry returned without the review flag has equal total debit and
\* total credit; an entry whose lines do not balance is returned with the
\* review flag and the reason of the final check as its last sentence.
C1_CuadradoOSenalado ==
    Returned =>
        /\ ~asiento.needs_manual_review
              => SumDebe(asiento.apuntes) = SumHaber(asiento.apuntes)
        /\ SumDebe(asiento.apuntes) # SumHaber(asiento.apuntes)
              => /\ asiento.needs_manual_review
                 /\ Len(asiento.review_reason) > 0
                 /\ asiento.review_reason[Len(asiento.review_reason)]
                        \in {R_Descuadrado, R_DescuadradoMas}

\* an entry whose lines do not balance has been returned
C1_Witness ==
    /\ Returned
    /\ SumDebe(asiento.apuntes) # SumHaber(asiento.apuntes)
    /\ asiento.needs_manual_review

\* C2: for every valid transaction and every text the call returns an entry
\* and raises no exception.
C2_NuncaLanza ==
    (pc = "done" /\ is_valid_for_asiento(classified_transaction)) => result = "asiento"

C4_Alquiler ==
    (/\ Returned /\ FechaFound
     /\ classified_transaction.tipo_operacion = OP_GastoAlquiler
     /\ classified_transaction.iva_type = T_General
     /\ classified_transaction.special_treatment = ST_RetencionAlquiler
     /\ loc.base_imponible = 100000)
    => /\ Len(asiento.apuntes) = 4
       /\ SumDebe(asiento.apuntes) = 121000
       /\ SumHaber(asiento.apuntes) = 121000
       /\ \E i \in 1..Len(asiento.apuntes) :
             /\ asiento.apuntes[i].cuenta = "4751.02"
             /\ asiento.apuntes[i].haber = 19000

\* C5: an expense or purchase under reverse charge (ISP) has exactly two VAT
\* lines, a debit on an input-VAT account and a credit on an output-VAT
\* account, of the same amount.
C5_ISPDosLineas ==
    (/\ Returned /\ FechaFound
     /\ IsGastoCompra(classified_transaction.tipo_operacion)
     /\ classified_transaction.iva_type = T_ISP)
    => /\ Cardinality(ApuntesOn(CuentasSoportado)) = 1
       /\ Cardinality(ApuntesOn(CuentasRepercutido)) = 1
       /\ \A i \in ApuntesOn(CuentasSoportado), j \in ApuntesOn(CuentasRepercutido) :
             /\ asiento.apuntes[i].debe = asiento.apuntes[j].haber
             /\ asiento.apuntes[i].haber = 0
             /\ asiento.apuntes[j].debe = 0

\* C6: for the zero-rate tax types (Exento, No Sujeto) calculate_iva_details
\* returns amount 0.00 and no account, and the entry has no line on an
\* input-VAT or output-VAT account.
C6_TipoCeroSinLineaIva ==
    classified_transaction.iva_type \in {T_Exento, T_NoSujeto} =>
        /\ IvaCalculated => /\ loc.calculated_iva = Some(0)
                            /\ loc.iva_account = NoAccount
        /\ Returned => ApuntesOn(CuentasSoportado \cup CuentasRepercutido) = {}

\* an exempt entry with a non-zero base has been returned with its lines
C6_Witness ==
    /\ Returned /\ FechaFound
    /\ classified_transaction.iva_type = T_Exento
    /\ loc.base_imponible # 0
    /\ Len(asiento.apuntes) >= 2

\* C7: for the tax types at 21%, 10% and 4% calculate_iva_details returns
\* base * rate rounded half-up to the cent, with the input-VAT account of the
\* rate for an expense or purchase and the output-VAT account of the rate for
\* an income or sale.
C7_CuotaIva ==
    LET t  == classified_transaction.iva_type
        op == classified_transaction.tipo_operacion
        pct == CASE t = T_General -> 21 [] t = T_Reducido -> 10
                 [] t = T_Superreducido -> 4 [] OTHER -> 0
        cuenta ==
            IF IsGastoCompra(op)
            THEN CASE pct = 21 -> "472.21" [] pct = 10 -> "472.10" [] OTHER -> "472.04"
            ELSE CASE pct = 21 -> "477.21" [] pct = 10 -> "477.10" [] OTHER -> "477.04"
    IN  (IvaCalculated /\ pct # 0) =>
            /\ loc.calculated_iva # None
            /\ IsHalfUp(loc.calculated_iva[1], loc.base_imponible * pct, 100)
            /\ (IsGastoCompra(op) \/ IsIngresoVenta(op)) => loc.iva_account = cuenta

\* 123.45 at 10% on an expense has given 12.35 on account 472.10
C7_Witness ==
    /\ IvaCalculated
    /\ classified_transaction.iva_type = T_Reducido
    /\ IsGastoCompra(classified_transaction.tipo_operacion)
    /\ loc.base_imponible = 12345
    /\ loc.calculated_iva = Some(1235)
    /\ loc.iva_account = "472.10"

\* C8: the tax type 'IVA 10%', which is no key of the rate table, gives the
\* rate 10%: base 123.45 on an expense gives 12.35 and account 472.10.
C8_TipoPorcentaje ==
    (/\ IvaCalculated
     /\ classified_transaction.iva_type = T_IVA10
     /\ IsGastoCompra(classified_transaction.tipo_operacion)
     /\ loc.base_imponible = 12345)
    => /\ loc.calculated_iva = Some(1235)
       /\ loc.iva_account = "472.10"

\* C9: on an expense, purchase, income or sale the zero-VAT review reason is
\* recorded exactly for the rules of a zero-rate tax type whose special
\* treatment does not confirm the exemption, then with the review flag and
\* the lines built; a rule at 21%, 10% or 4% never receives it.
C9_RevisionIvaCero ==
    LET t == classified_transaction.iva_type
        confirmada == Contains(K_exento, Lower(classified_transaction.special_treatment))
        op == classified_transaction.tipo_operacion
    IN  (Returned /\ FechaFound /\ (IsGastoCompra(op) \/ IsIngresoVenta(op))) =>
            /\ t \in {T_Exento, T_NoSujeto} =>
                  (HasReason(R_IVA0) <=> ~confirmada)
            /\ t \in {T_General, T_Reducido, T_Superreducido} => ~HasReason(R_IVA0)
            /\ HasReason(R_IVA0) =>
                  asiento.needs_manual_review /\ Len(asiento.apuntes) >= 2

\* C10: a special treatment with a withholding percentage P gives
\* base * P / 100 rounded half-up to the cent, on the rental account when it
\* names a rental and on the professional account otherwise; one without a
\* percentage gives (None, None, None).
C10_Retencion ==
    LET st == classified_transaction.special_treatment
        pct == CASE st = ST_RetencionAlquiler -> 19 [] st = ST_IRPFAlquiler -> 19
                 [] st = ST_IRPF15 -> 15 [] OTHER -> 0
        cuenta == IF st \in {ST_RetencionAlquiler, ST_IRPFAlquiler}
                  THEN "4751.02" ELSE "4751.01"
    IN  IrpfCalculated =>
            IF pct # 0
            THEN /\ loc.calculated_irpf # None
                 /\ IsHalfUp(loc.calculated_irpf[1], loc.base_imponible * pct, 100)
                 /\ loc.irpf_account = cuenta
            ELSE /\ loc.calculated_irpf = None
                 /\ loc.irpf_account = NoAccount
                 /\ loc.irpf_difference = None

\* the transaction of the running call with other tax amounts in its text
WithTaxCaptures(cuota, retencion) ==
    [classified_transaction EXCEPT !.original_text.cuota_iva = cuota,
                                   !.original_text.retencion_irpf = retencion]

\* C11: the entry a call returns is the one generate_asiento returns for the
\* same rule, date, base and total with any other VAT amount and withheld
\* amount in the text: same outcome, same lines, same review flag and reason.
C11_CalculadoGana ==
    pc = "done" =>
        \A cuota \in CuotaCaptures, retencion \in RetencionCaptures :
            LET otra == generate_asiento(WithTaxCaptures(cuota, retencion))
            IN  /\ otra.result = result
                /\ result = "asiento" =>
                      /\ otra.asiento.apuntes = asiento.apuntes
                      /\ otra.asiento.needs_manual_review = asiento.needs_manual_review
                      /\ otra.asiento.review_reason = asiento.review_reason

\* an entry with a VAT line whose amount is not the one the text shows, the
\* delta of calculate_iva_details saying so
C11_Witness ==
    /\ Returned /\ FechaFound
    /\ loc.cuota_iva_ext # None /\ loc.retencion_irpf_ext # None
    /\ loc.iva_difference # None /\ loc.iva_difference[1] # 0
    /\ loc.irpf_difference # None /\ loc.irpf_difference[1] # 0
    /\ \E i \in ApuntesOn(CuentasSoportado) :
          asiento.apuntes[i].debe # loc.cuota_iva_ext[1]
    /\ \E i \in ApuntesOn({"4751.01", "4751.02"}) :
          asiento.apuntes[i].haber # loc.retencion_irpf_ext[1]

\* the operation type of the rule is neither expense/purchase nor income/sale
NoSoportado ==
    /\ ~IsGastoCompra(classified_transaction.tipo_operacion)
    /\ ~IsIngresoVenta(classified_transaction.tipo_operacion)

MontoContrapartida ==
    LET ultimo == asiento.apuntes[Len(asiento.apuntes)]
    IN  IF IsGastoCompra(classified_transaction.tipo_operacion)
        THEN ultimo.haber ELSE ultimo.debe

\* the discrepancy sentence is part of the review reason
HasDiscrepancia == HasReason(R_DiscrepanciaSola) \/ HasReason(R_DiscrepanciaMas)

\* C13: an expense, purchase, income or sale entry carries the discrepancy
\* sentence exactly when the amount on its counter-account line differs from
\* the extracted total by more than 0.05; the sentence then follows the
\* reason recorded before it, the flag is set and the lines are all there.
C13_CruceTotal ==
    (/\ Returned /\ FechaFound /\ ~NoSoportado)
    => /\ HasDiscrepancia <=>
             Abs(MontoContrapartida - loc.total_factura_ext) > Tolerance
       /\ HasDiscrepancia =>
             /\ asiento.needs_manual_review
             /\ Len(asiento.apuntes) >= 2
             /\ asiento.apuntes[Len(asiento.apuntes)].cuenta
                   = classified_transaction.contrapartida
       /\ HasReason(R_DiscrepanciaMas) =>
             asiento.review_reason[1] \in {R_Cero, R_IVA0}

\* every sentence of r is kept, in place, at the start of q
IsPrefix(r, q) ==
    /\ Len(r) <= Len(q)
    /\ \A i \in 1..Len(r) : q[i] = r[i]

\* C14: no step of a call drops a sentence of the review reason recorded
\* before it, and no step resets the review flag once it is set.
C14_SoloAcumula ==
    [][/\ IsPrefix(asiento.review_reason, asiento'.review_reason)
       /\ asiento.needs_manual_review => asiento'.needs_manual_review]_vars

\* the rule of the running call turned into a rule of the opposite side,
\* with the same tax type and special treatment
Opuesta ==
    IF IsGastoCompra(classified_transaction.tipo_operacion)
    THEN [classified_transaction EXCEPT !.tipo_operacion = OP_Ingreso,
                                        !.account = "705", !.contrapartida = "430"]
    ELSE [classified_transaction EXCEPT !.tipo_operacion = OP_GastoAlquiler,
                                        !.account = "621", !.contrapartida = "410"]

\* C15: for a tax type other than reverse charge, the entry of an expense or
\* purchase and the entry of an income or sale for the same text, tax type
\* and special treatment have the same number of lines and, line by line,
\* the same amount on the opposite side; on the income entry the main
\* account and the output-VAT account are credited, the withholding is
\* debited on account 473 and the counter-account is debited for
\* base + VAT - withholding.
C15_Espejo ==
    (/\ Returned /\ FechaFound /\ ~NoSoportado
     /\ classified_transaction.iva_type # T_ISP)
    => LET otra == generate_asiento(Opuesta).asiento.apuntes
           esta == asiento.apuntes
           ingreso == IF IsGastoCompra(classified_transaction.tipo_operacion)
                      THEN otra ELSE esta
           ct == IF IsGastoCompra(classified_transaction.tipo_operacion)
                 THEN Opuesta ELSE classified_transaction
           n == Len(ingreso)
       IN  /\ Len(otra) = Len(esta)
           /\ \A i \in 1..Len(esta) :
                 esta[i].debe = otra[i].haber /\ esta[i].haber = otra[i].debe
           /\ ingreso[1] = ApunteContable(ct.account, 0, loc.base_imponible)
           /\ \A i \in 2..(n - 1) :
                 \/ /\ ingreso[i].cuenta \in CuentasRepercutido
                    /\ ingreso[i].debe = 0
                    /\ ingreso[i].haber = loc.calculated_iva[1]
                 \/ /\ ingreso[i].cuenta \in {"473.01", "473.02"}
                    /\ ingreso[i].haber = 0
                    /\ ingreso[i].debe = loc.calculated_irpf[1]
           /\ ingreso[n] = ApunteContable(ct.contrapartida,
                                          loc.base_imponible + OrZero(loc.calculated_iva)
                                          - OrZero(loc.calculated_irpf), 0)

\* an income entry with a VAT line and a withholding line
C15_Witness ==
    /\ Returned /\ FechaFound
    /\ IsIngresoVenta(classified_transaction.tipo_operacion)
    /\ classified_transaction.iva_type # T_ISP
    /\ Len(asiento.apuntes) = 4
    /\ asiento.apuntes[2].cuenta \in CuentasRepercutido
    /\ asiento.apuntes[3].cuenta \in {"473.01", "473.02"}
    /\ asiento.apuntes[3].debe > 0

\* C28: on every entry generate_asiento returns, needs_manual_review is
\* true exactly when review_reason is a non-empty text: no step raises the
\* flag without a reason or records a reason without the flag.
C28_RevisionSiiMotivo ==
    result = "asiento"
    => (asiento.needs_manual_review <=> Len(asiento.review_reason) > 0)

\* an entry flagged by the zero check and one flagged by two later steps
C28_Witness ==
    /\ result = "asiento"
    /\ asiento.needs_manual_review
    /\ \/ HasReason(R_Cero)
       \/ Len(asiento.review_reason) >= 2

\* the final balance check of generate_asiento has failed
Descuadrado == HasReason(R_Descuadrado) \/ HasReason(R_DescuadradoMas)

\* an entry of an expense, purchase, income or sale has been returned
ReturnedGastoIngreso ==
    /\ Returned /\ FechaFound
    /\ \/ IsGastoCompra(classified_transaction.tipo_operacion)
       \/ IsIngresoVenta(classified_transaction.tipo_operacion)

\* C29: for an expense, purchase, income or sale the final balance check
\* fails only when the base is negative or the VAT rate is none of 21%, 10%
\* and 4% (an amount counted in the counter-account line with no line of
\* its own); with a non-negative base and a tax type of the rate table,
\* whatever the withholding, the lines balance and the reason 'unbalanced'
\* is not recorded.
C29_DescuadreSoloSinLinea ==
    ReturnedGastoIngreso =>
        LET ct == classified_transaction
            unbalanced == \/ Descuadrado
                          \/ SumDebe(asiento.apuntes) # SumHaber(asiento.apuntes)
        IN  /\ unbalanced
                => \/ loc.base_imponible < 0
                   \/ /\ Truthy(loc.calculated_iva)
                      /\ ResolveIvaRate(ct.iva_type)[1] \notin {2100, 1000, 400}
            /\ (loc.base_imponible >= 0 /\ ct.iva_type \in DOMAIN IVA_RATES)
                => ~unbalanced

\* an entry of a non-negative base at a rate with no account bucket has
\* been returned, and the final check has failed on it
C29_Witness ==
    /\ ReturnedGastoIngreso
    /\ loc.base_imponible > 0
    /\ Truthy(loc.calculated_iva)
    /\ ResolveIvaRate(classified_transaction.iva_type)[1] = 500
    /\ SumDebe(asiento.apuntes) # SumHaber(asiento.apuntes)
    /\ Descuadrado

-----------------------------------------------------------------------------
(* Properties of the classifier                                            *)

\* the classify_text_content call has returned
Clasificada == llamada.pc = "returned"

\* the rules the call matched against, none when no DataFrame was loaded
Snapshot == IF llamada.rules_df = None THEN <<>> ELSE llamada.rules_df[1]

\* the row of the sheet a loaded rule comes from
SourceRow(rule) ==
    CHOOSE r \in {Row_Luz, Row_LuzMayusculas, Row_Alquiler, Row_SinKeywords, Row_Blancos} :
        r.Account = rule.Account

\* the row has a keyword, not blank, that occurs in the text whatever the case
RowMatches(row, text) ==
    /\ row.Keywords # None
    /\ \E i \in 1..Len(SplitComma(row.Keywords[1])) :
          LET kw == Strip(SplitComma(row.Keywords[1])[i])
          IN  /\ kw # <<>>
              /\ \E k \in 1..Len(text) :
                    /\ k + Len(kw) - 1 <= Len(text)
                    /\ \A m \in 1..Len(kw) :
                          LowerChar(text[k + m - 1]) = LowerChar(kw[m])

\* C16: the rule a classification returns comes from a row of the sheet
\* that matches the text, and no row of the sheet that matches the text has
\* a strictly higher priority, in whatever order the sheet lists its rows.
C16_PorPrioridad ==
    (Clasificada /\ llamada.ret # None)
    => /\ RowMatches(SourceRow(llamada.ret[1]), llamada.text_content)
       /\ \A i \in 1..Len(Snapshot) :
             RowMatches(SourceRow(Snapshot[i]), llamada.text_content)
             => Snapshot[i].Priority <= llamada.ret[1].Priority

\* position of the row of account cuenta in the sequence rows
PositionOf(cuenta, rows) == CHOOSE i \in 1..Len(rows) : rows[i].Account = cuenta

\* C17: the DataFrame load_rules builds lists rows of equal priority in the
\* order of the sheet, and of the matching rules of highest priority the
\* call returns the one that comes first in the sheet.
C17_EmpateOrdenFuente ==
    (llamada.sheet # None /\ llamada.rules_df # None)
    => LET sheet == llamada.sheet[1]
           df == llamada.rules_df[1]
       IN  /\ \A i, j \in 1..Len(sheet) :
                 (i < j /\ ToNumericCell(sheet[i].Priority) = ToNumericCell(sheet[j].Priority))
                 => PositionOf(sheet[i].Account, df) < PositionOf(sheet[j].Account, df)
           /\ (Clasificada /\ llamada.ret # None)
              => \A j \in 1..Len(sheet) :
                    (/\ RowMatches(sheet[j], llamada.text_content)
                     /\ ToNumericCell(sheet[j].Priority) = llamada.ret[1].Priority)
                    => PositionOf(llamada.ret[1].Account, sheet) <= j

\* C18: a classification returns None exactly when no rule it was given has
\* a keyword, not blank, that occurs in the text whatever the case; so a row
\* without keywords or with blank ones is never returned, and an empty text,
\* an empty sheet or no sheet give None.
C18_NoneSiNadaCoincide ==
    Clasificada
    => (llamada.ret = None
        <=> ~\E i \in 1..Len(Snapshot) :
                RowMatches(SourceRow(Snapshot[i]), llamada.text_content))

\* thread t holds the DataFrame load_rules returned to it
Holds(t) == hilos[t].snapshot # None

\* C23: a snapshot a classification call obtained is not modified by a
\* concurrent or later reload: while a thread holds a DataFrame, no step of
\* any thread changes its rows or their order
C23_SnapshotInmutable ==
    [][\A t \in Threads :
          Holds(t) => /\ hilos[t].snapshot[1] <= Len(heap')
                      /\ heap'[hilos[t].snapshot[1]] = heap[hilos[t].snapshot[1]]]_vars

\* a thread is about to run match_rule on its snapshot while the cache
\* already refers to another DataFrame, with other rules
C23_Witness ==
    \E t \in Threads :
        /\ hilos[t].pc = "match_rule" /\ Holds(t)
        /\ CACHED_RULES # None /\ CACHED_RULES # hilos[t].snapshot
        /\ heap[CACHED_RULES[1]].rows # heap[hilos[t].snapshot[1]].rows

\* C24: load_rules serves the cached snapshot without reading the file
\* exactly when a snapshot is cached, the call is not forced, the file's
\* modification time is the recorded one and the resolved path is the path
\* the snapshot was loaded from; otherwise it goes on to read the file
C24_CacheSoloSiFresco ==
    [][\A t \in Threads :
          hilos[t].pc = "check" /\ hilos'[t].pc # "check" =>
              (hilos'[t].pc = "return_cached" <=>
                  /\ CACHED_RULES # None
                  /\ ~hilos[t].force_reload
                  /\ RULES_FILE_LAST_MODIFIED = Some(hilos[t].modified_time)
                  /\ heap[CACHED_RULES[1]].source = hilos[t].current_rules_file_path)]_vars

\* no call is running
AllDone == \A t \in Threads : hilos[t].pc \in {"idle", "returned"}

\* C30: once all calls have finished, if the recorded modification time is
\* the file's current one, the cached snapshot holds the rules of that
\* version of the file (the snapshot is one loaded from the path in use, so
\* that the path test of C24 plays no part)
C30_SinSnapshotRancio ==
    /\ AllDone
    /\ CACHED_RULES # None
    /\ heap[CACHED_RULES[1]].source = configured_path
    /\ RULES_FILE_PATH = Some(configured_path)
    /\ RULES_FILE_LAST_MODIFIED = Some(archivos[configured_path].mtime)
    => heap[CACHED_RULES[1]].rows =
          sort_values(ConvertColumns(archivos[configured_path].rows,
                                     build.astype_keeps_na), build.tie_rank)

-----------------------------------------------------------------------------
(* Properties of the parsers                                               *)

DateReturned == parse_call.fn = "parse_date" /\ parse_call.pc = "returned"

\* year y, month m, day d in YYYY-MM-DD form
IsoDate(y, m, d) == PadNum(y, 4) \o <<"-">> \o PadNum(m, 2) \o <<"-">> \o PadNum(d, 2)

\* what the claim expects of three fields read as year y, month m, day d
ExpectedDate(y, m, d) ==
    IF ValidDate(DigitsValue(y), DigitsValue(m), DigitsValue(d))
    THEN Some(IsoDate(DigitsValue(y), DigitsValue(m), DigitsValue(d)))
    ELSE None

\* C19: parse_date gives every day-month-year and every year-month-day
\* string written with '-', '/' or '.' the same date in YYYY-MM-DD form, and
\* gives None for every string that is no calendar date.  (A day-month-year
\* string that is a date only when read month first is left open: the
\* claim speaks neither of that order nor against it.)
C19_FechaNormalizada ==
    DateReturned =>
        /\ \A d \in DateFields.day, m \in DateFields.month,
              y \in DateFields.year, sep \in DateFields.sep :
              /\ parse_call.arg = DateString(d, m, y, sep) =>
                    \/ parse_call.ret = ExpectedDate(y, m, d)
                    \/ ExpectedDate(y, m, d) = None /\ ExpectedDate(y, d, m) # None
              /\ parse_call.arg = DateString(y, m, d, sep) =>
                    parse_call.ret = ExpectedDate(y, m, d)
        /\ parse_call.arg \in DateFields.other => parse_call.ret = None

AmountReturned == parse_call.fn = "parse_amount" /\ parse_call.pc = "returned"

RECURSIVE ConcatGroups(_)
ConcatGroups(groups) ==
    IF Len(groups) = 0 THEN <<>> ELSE groups[1] \o ConcatGroups(Tail(groups))

\* the number written by a sign, the digits of the integer part and the decimals
AmountValue(sign, groups, decimals) ==
    LET mag == DigitsValue(ConcatGroups(groups) \o decimals)
    IN  Canonical(IF sign = <<"-">> THEN -mag ELSE mag, Len(decimals))

\* C20: of an amount written with both '.' and ',', parse_amount takes the
\* separator that comes later as the decimal separator and drops the other
\* one as a thousands separator; '1.234,56' and '1,234.56' give 1234.56, and
\* so does '1234,56'
C20_SeparadorPosterior ==
    AmountReturned =>
        /\ \A sg \in AmountFields.sign, g \in AmountFields.groups, t \in {".", ","},
              dec \in AmountFields.decimals, af \in AmountFields.affix :
              parse_call.arg = AmountString(sg, g, t, dec, af)
                 => parse_call.ret = Some(AmountValue(sg, g, dec))
        /\ parse_call.arg = <<"1","2","3","4",",","5","6">>
              => parse_call.ret = Some([num |-> 123456, dec |-> 2])

\* '1.234,56' was parsed: the comma comes later and the result is 1234.56
C20_Witness ==
    /\ AmountReturned
    /\ parse_call.arg = <<"1",".","2","3","4",",","5","6">>
    /\ parse_call.ret = Some([num |-> 123456, dec |-> 2])

\* C21: of an amount written with one separator, '.' or ',', parse_amount
\* takes the separator as the decimal one when exactly two digits follow it
\* and as a thousands separator otherwise; '1.500' and '1,500' give 1500
C21_SeparadorUnico ==
    AmountReturned =>
        \A i \in AmountFields.int, sep \in {".", ","}, f \in AmountFields.frac :
            parse_call.arg = i \o <<sep>> \o f =>
                parse_call.ret =
                    Some(Canonical(DigitsValue(i \o f), IF Len(f) = 2 THEN 2 ELSE 0))

ConceptoReturned == parse_call.fn = "format_concepto" /\ parse_call.pc = "returned"

\* the template with every field that has an extracted value replaced by
\* it and every other field by the marker
Rellenado(patron, info) ==
    LET part(t) == IF t.ph = "" THEN t.lit
                   ELSE IF t.ph \in DOMAIN info /\ info[t.ph] # None THEN info[t.ph][1]
                   ELSE <<"[","n","/","d","]">>
        filled[i \in 0..Len(patron)] ==
            IF i = 0 THEN <<>> ELSE filled[i - 1] \o part(patron[i])
    IN  filled[Len(patron)]

\* C22: format_concepto never raises and returns at most 38 characters; a
\* field of the template with no extracted value becomes '[n/d]', and a
\* result longer than 38 characters is cut and ends with '...'.  (The
\* content is compared for the templates whose fields are keys of the
\* extracted details.)
C22_ConceptoSeguro ==
    ConceptoReturned =>
        LET ret    == parse_call.ret
            patron == parse_call.arg.concepto_patron
            full   == Rellenado(patron, parse_call.arg.extracted_info)
            plain  == \A i \in 1..Len(patron) :
                         patron[i].ph \notin {"proveedor_nombre_short",
                             "cliente_nombre_short", "fecha_factura_short"}
        IN  /\ ret.raised = ""
            /\ Len(ret.value) <= 38
            /\ patron # <<>> /\ plain =>
                  IF Len(full) > 38
                  THEN /\ Len(ret.value) >= 3
                       /\ SubSeq(ret.value, Len(ret.value) - 2, Len(ret.value)) = <<".",".",".">>
                       /\ SubSeq(ret.value, 1, Len(ret.value) - 3)
                             = SubSeq(full, 1, Len(ret.value) - 3)
                  ELSE ret.value = Strip(full)

-----------------------------------------------------------------------------
(* Properties of the Drive listener                                        *)

\* the step of run_listener that calls check_for_new_documents
PollStep == bucle.pc = "sleep" /\ bucle'.pc = "loop"

\* the items check_for_new_documents has returned
Devuelto(item) == \E k \in 1..Len(bucle'.new_files) : bucle'.new_files[k] = item

\* the row of the file before the poll
RowOf(item) == processed_files[item.id][1]

\* C25: a file whose last processing ended in an error status (OCR error,
\* sheet-write error, entry-generation failure, listener error) is returned
\* again by check_for_new_documents on a later poll, even when it has not
\* been modified on Drive.
C25_ErrorReintentado ==
    [][PollStep =>
         \A i \in 1..Len(bucle'.items) :
            LET item == bucle'.items[i]
            IN  (/\ item.mimeType \in ALLOWED_MIMETYPES
                 /\ processed_files[item.id] # None
                 /\ startswith_error(RowOf(item).status))
                => Devuelto(item)]_vars

\* C26: an entry that needs manual review is never written to the sheet,
\* and the file it came from ends its cycle with the status
\* 'needs_manual_review_asiento'; only entries that need no review are
\* written and reach 'completed_sheet_written'.
C26_RevisionNoEscrita ==
    [][(bucle.pc = "sheet" /\ bucle.asiento_contable[1].needs_manual_review)
         => /\ sheet_rows' = sheet_rows
            /\ processed_files'[bucle.file_data[1].id][1].status =
                   "needs_manual_review_asiento"]_vars

\* C27: check_for_new_documents returns a listed file of an allowed MIME
\* type exactly when the file has no row in the table, or its Drive
\* modification time is later than the recorded one, or its recorded
\* status is 'error' or 'pending_reprocessing'; so a file that reached
\* 'completed_sheet_written' and was not modified since is not returned
\* by any later poll.
C27_DevueltoSiiPendiente ==
    [][PollStep =>
         \A i \in 1..Len(bucle'.items) :
            LET item == bucle'.items[i]
            IN  item.mimeType \in ALLOWED_MIMETYPES
                => (Devuelto(item)
                      <=> \/ processed_files[item.id] = None
                          \/ item.modifiedTime > RowOf(item).last_modified_drive
                          \/ RowOf(item).status \in {"error", "pending_reprocessing"})]_vars

====
